---- MODULE Spec2Model ----
(***************************************************************************)
(* The display-orchestration loop of weather.py: the main loop (one tick   *)
(* per LOOP_INTERVAL), the fire-and-forget fetch threads of the two data   *)
(* sources, the frame cache guarded by buffer_lock, and the KEY1 / KEY2    *)
(* callbacks, which run on the button library's callback thread.           *)
(*                                                                         *)
(* Bitmaps are modelled by what they were rendered from: a record          *)
(* [kind, snap], snap being the identity of the snapshot (or of the cached *)
(* image) the bitmap shows.  A snapshot is identified by the time of the   *)
(* tick that launched the fetch that produced it; ticks start at strictly  *)
(* increasing times, so the identity is unique per source and ordered by   *)
(* launch.                                                                 *)
(***************************************************************************)
EXTENDS Integers, Sequences, FiniteSets, TLC

VARIABLES
    clock,              \* the value time.time() returns
    now,                \* main(): now, read at the start of the tick
    mpc,                \* main(): position in the loop body
    should_be_dimmed,   \* main(): local of the tick
    is_dimmed,          \* main(): is_dimmed
    duty,               \* the three panels' backlight duty cycles
    last_activity,      \* main(): last_activity (written by the callbacks)
    dim_activity,       \* history: last_activity as read by the tick that dimmed
    press_since_dim,    \* history: a button press happened after is_dimmed was set
    screens_swapped,    \* main(): screens_swapped
    last_swap_time,     \* main(): last_swap_time
    current_page,       \* main(): current_page (written by key2_callback)
    weather_ref,        \* main(): weather_ref  {'data', 'last_fetch'}
    earth_ref,          \* main(): earth_ref    {'data', 'last_fetch'}
    earth_image_cache,  \* module global earth_image_cache['resized_240']
    wfetch,             \* weather fetch threads before line 465
    wstored,            \* weather fetch threads past line 465, before line 466
    erun,               \* earth fetch threads before line 234
    ecached,            \* earth fetch threads past line 236, before line 478
    estored,            \* earth fetch threads past line 478, before line 479
    frame_buffers,      \* module global frame_buffers
    buffer_lock,        \* module global buffer_lock: its holder
    earth_data,         \* update_frame_buffers(): local earth_data
    page_buffer,        \* main(): the page whose buffer line 625 picked
    rendered,           \* history: update_frame_buffers ran in this tick
    panels,             \* what the three panels show
    k2pc,               \* key2_callback: position
    presses,            \* number of KEY2 presses the operator has made
    queued,             \* KEY2 presses whose callback has not started yet
    instant,            \* the last render_current_page_now wrote the panels
    aborted,            \* history: a forced redraw was cut short by a ShowImage
                        \* error and no display write has completed since
    weather,            \* update_frame_buffers(): local weather
    exc,                \* what ended the main loop, "none" while it runs
    cleaned,            \* the display drivers cleared and shut down on exit
    swallowed,          \* history: a bare "except:" has caught a KeyboardInterrupt
    tick_snap,          \* history: the snapshots stored when this tick started
    epc,                \* earth.py main(): position in the loop body
    photos_list,        \* earth.py main(): photos_list
    last_list_fetch,    \* earth.py main(): last_list_fetch
    current_photo,      \* earth.py main(): current_photo
    last_photo_hour,    \* earth.py main(): last_photo_hour
    display_dirty,      \* earth.py main(): display_dirty
    iteration,          \* history: what this iteration of earth.py's loop did
    attempt_hour,       \* history: clock hour of the last photo download attempt
    wx,                 \* the weather snapshot handed to the render functions
    drawn               \* what the render functions drew from it

vars == <<clock, now, mpc, should_be_dimmed, is_dimmed, duty, last_activity,
          dim_activity, press_since_dim, screens_swapped, last_swap_time,
          current_page, weather_ref, earth_ref, earth_image_cache, wfetch,
          wstored, erun, ecached, estored, frame_buffers, buffer_lock,
          earth_data, page_buffer, rendered, panels, k2pc, presses, queued,
          instant, aborted, weather, exc, cleaned, swallowed, tick_snap, epc, photos_list, last_list_fetch, current_photo, last_photo_hour,
          display_dirty, iteration, attempt_hour, wx, drawn>>

\* earth.py's loop state, and the render functions' input and output
earthVars == <<epc, photos_list, last_list_fetch, current_photo,
               last_photo_hour, display_dirty, iteration, attempt_hour>>
drawVars == <<wx, drawn>>

\* weather.py's state apart from what earth.py's loop has as well: the clock,
\* the loop's reading of it, the panels, and how the loop ended
mainVars == <<mpc, should_be_dimmed, is_dimmed, duty, last_activity,
              dim_activity, press_since_dim, screens_swapped, last_swap_time,
              current_page, weather_ref, earth_ref, earth_image_cache, wfetch,
              wstored, erun, ecached, estored, frame_buffers, buffer_lock,
              earth_data, page_buffer, rendered, k2pc, presses, queued,
              instant, aborted, weather, tick_snap>>

----------------------------------------------------------------------------
(* Program constants *)

BL_MAIN_DUTY == 90
BL_SIDE_DUTY == 45
UPDATE_SECONDS == 300
EARTH_UPDATE_SECONDS == 3600
DIM_TIMEOUT == 120
SWAP_INTERVAL == 3600
LOOP_INTERVAL == 5

(* Bounds of the model *)

Epoch == 100000         \* time.time() when main() starts
NumTimes == 3           \* how many instants of a scenario the clock can take
MaxInFlight == 3        \* fetch threads of one source alive at once
MaxPress == 2           \* KEY2 presses made

Min(a, b) == IF a < b THEN a ELSE b

Instants(offsets) ==
    {Epoch + offsets[i] : i \in 1..Min(NumTimes, Len(offsets))}

\* Seconds after Epoch at which the clock is observed while the buttons are
\* in use: around the boundary of the dim timeout.
ButtonOffsets == <<0, 120, 125, 5, 240, 245>>

\* Seconds after Epoch at which the clock is observed while the fetches are
\* followed: around the boundaries of the refresh and swap intervals.
FetchOffsets == <<0, 5, 3600, 3605, 300, 305>>

\* Seconds after Epoch at which the clock is observed while the layout swaps
\* are followed: around the multiples of the swap interval.
SwapOffsets == <<0, 3600, 7200, 3595, 7195, 10800>>

ButtonTimes == Instants(ButtonOffsets)
FetchTimes == Instants(FetchOffsets)
SwapTimes == Instants(SwapOffsets)
Times == ButtonTimes \cup FetchTimes \cup SwapTimes

Pages == {"weather", "earth"}

----------------------------------------------------------------------------
(* Snapshots and bitmaps *)

NoData == [ok |-> FALSE, id |-> 0]
Snapshot(t) == [ok |-> TRUE, id |-> t]

\* The 'date' of an earth snapshot, as date.split(' ') sees it: the EPIC list
\* gives "YYYY-MM-DD HH:MM:SS"; a date without its time part has one piece.
DateTime == <<"2025-01-01", "00:31:45">>
DateOnly == <<"2025-01-01">>

\* Lines 238-244: the dictionary fetch_earth_photo returns when it succeeds.
EarthSnapshot(t, date) == [ok |-> TRUE, id |-> t, date |-> date]

Displays == {"main", "left", "right"}

None == [kind |-> "None", snap |-> 0]
IndexError == [kind |-> "IndexError", snap |-> 0]

\* What a render function "returns" when it raises OSError.
OSError == [kind |-> "OSError", snap |-> 0]
Blank == [kind |-> "blank", snap |-> 0]

render_main(w) ==
    IF ~w.ok THEN [kind |-> "No Data", snap |-> 0]
    ELSE [kind |-> "conditions", snap |-> w.id]

render_humidity_wind(w) ==
    IF ~w.ok THEN [kind |-> "--", snap |-> 0]
    ELSE [kind |-> "humidity_wind", snap |-> w.id]

render_sun_times(w) ==
    IF ~w.ok THEN [kind |-> "--", snap |-> 0]
    ELSE [kind |-> "sun_times", snap |-> w.id]

render_main_earth_cache_first(e, cache) ==
    IF cache # 0 THEN [kind |-> "photo", snap |-> cache]
    ELSE IF ~e.ok THEN [kind |-> "No Earth", snap |-> 0]
    ELSE [kind |-> "photo", snap |-> e.id]

\* Reads earth_image_cache['resized_240'] when the snapshot is valid.
render_main_earth(e, cache) ==
    IF ~e.ok THEN [kind |-> "No Earth", snap |-> 0]
    ELSE IF cache # 0 THEN [kind |-> "photo", snap |-> cache]
    ELSE [kind |-> "photo", snap |-> e.id]

\* Line 416 takes date_str.split(' ')[1].
render_left_earth(e) ==
    IF ~e.ok THEN [kind |-> "-- ", snap |-> 0]
    ELSE IF Len(e.date) < 2 THEN IndexError
    ELSE [kind |-> "date", snap |-> e.id]

render_right_earth(e) ==
    IF ~e.ok THEN [kind |-> "-- ", snap |-> 0]
    ELSE [kind |-> "centre", snap |-> e.id]

\* int(duty * 0.2)
DimDuty(d) == (d * 2) \div 10

DimmedDuty == [main |-> DimDuty(BL_MAIN_DUTY), left |-> DimDuty(BL_SIDE_DUTY),
               right |-> DimDuty(BL_SIDE_DUTY)]
NormalDuty == [main |-> BL_MAIN_DUTY, left |-> BL_SIDE_DUTY, right |-> BL_SIDE_DUTY]

\* Lines 530-536: the weather page under the layout variant.
RenderWeatherPage(w, swapped) ==
    [main  |-> render_main(w),
     left  |-> IF swapped THEN render_sun_times(w) ELSE render_humidity_wind(w),
     right |-> IF swapped THEN render_humidity_wind(w) ELSE render_sun_times(w)]

\* Lines 539-541: the earth page.
RenderEarthPage(e, cache) ==
    [main  |-> render_main_earth(e, cache),
     left  |-> render_left_earth(e),
     right |-> render_right_earth(e)]

----------------------------------------------------------------------------
(* weather.py: the weather code table and the helpers of the render functions *)

MaxDeg == 360
MaxTemp == 35
MaxCode == 100

WMO ==
    (0 :> "Clear") @@ (1 :> "Mostly Clear") @@ (2 :> "Partly Cloudy") @@
    (3 :> "Overcast") @@
    (45 :> "Foggy") @@ (48 :> "Icy Fog") @@
    (51 :> "Light Drizzle") @@ (53 :> "Drizzle") @@ (55 :> "Heavy Drizzle") @@
    (61 :> "Light Rain") @@ (63 :> "Rain") @@ (65 :> "Heavy Rain") @@
    (71 :> "Light Snow") @@ (73 :> "Snow") @@ (75 :> "Heavy Snow") @@
    (77 :> "Snow Grains") @@
    (80 :> "Showers") @@ (81 :> "Rain Showers") @@ (82 :> "Heavy Showers") @@
    (85 :> "Snow Showers") @@ (86 :> "Heavy Snow Showers") @@
    (95 :> "Thunderstorm") @@ (96 :> "Storm+Hail") @@ (99 :> "Severe Storm")

\* Python's round(n / d) for integers n and d > 0: to the nearest integer, a
\* tie going to the even one
round(n, d) ==
    LET q == n \div d
        r == n % d
    IN  IF 2 * r < d THEN q
        ELSE IF 2 * r > d THEN q + 1
        ELSE IF q % 2 = 0 THEN q ELSE q + 1

Compass == <<"N", "NE", "E", "SE", "S", "SW", "W", "NW">>

wind_dir_truncated(deg) == Compass[((deg \div 45) % 8) + 1]

wind_dir(deg) == Compass[(round(deg, 45) % 8) + 1]

temp_col_upper_inclusive(t) ==
    IF t <= 5 THEN <<100, 180, 255>>
    ELSE IF t <= 12 THEN <<60, 200, 200>>
    ELSE IF t <= 18 THEN <<80, 220, 140>>
    ELSE IF t <= 24 THEN <<200, 200, 100>>
    ELSE IF t <= 28 THEN <<255, 160, 60>>
    ELSE <<255, 80, 60>>

temp_col(t) ==
    IF t < 5 THEN <<100, 180, 255>>
    ELSE IF t < 12 THEN <<60, 200, 200>>
    ELSE IF t < 18 THEN <<80, 220, 140>>
    ELSE IF t < 24 THEN <<200, 200, 100>>
    ELSE IF t < 28 THEN <<255, 160, 60>>
    ELSE <<255, 80, 60>>

\* WMO.get(code, 'Unknown')
Condition(code) == IF code \in DOMAIN WMO THEN WMO[code] ELSE "Unknown"

\* The fields of a fetched weather snapshot that the three helpers read
Reading(temp, code, wdir) ==
    [ok |-> TRUE, temp |-> temp, code |-> code, wdir |-> wdir]

NoReading == [ok |-> FALSE, temp |-> 0, code |-> 0, wdir |-> 0]

Readings ==
    {Reading(18, 2, deg) : deg \in 0..MaxDeg}
        \cup {Reading(t, c, 270) : t \in (0 - MaxTemp)..MaxTemp, c \in 0..MaxCode}
        \cup {NoReading}

NotDrawn == [cond |-> "", tc |-> <<>>, dir |-> ""]

----------------------------------------------------------------------------
(* earth.py: constants, photo list and bitmaps *)

UPDATE_LIST_SECONDS == 43200
MAX_PHOTOS == 12
SLEEP_SECONDS == 60

\* Seconds after Epoch at which earth.py's loop observes the clock: in the
\* hour it starts in, and around the first refresh of the photo list, which
\* falls inside a clock hour unless the program started on the hour.
EarthPyOffsets == <<0, 43140, 43200, 60, 3600, 86400>>

EarthPyTimes == Instants(EarthPyOffsets)

\* int(now // 3600)
Hour(t) == t \div 3600

\* images[:MAX_PHOTOS] of the list fetched at t, EPIC having n images, their
\* 'date' being date
PhotosList(t, n, date) ==
    [i \in 1..Min(n, MAX_PHOTOS) |->
        [list |-> t, entry |-> i - 1, date |-> date]]

\* The dict fetch_photo_by_metadata returns for a downloaded image.  Image.open
\* (line 94) reads the file's header only; whole: the pixel data that follow
\* it are complete, so that the image decodes when it is first used.
Photo(meta, index, total, whole) ==
    [ok |-> TRUE, image |-> meta, date |-> meta.date, index |-> index,
     total |-> total, whole |-> whole]

\* Line 131 resizes the image, which decodes it: on pixel data cut short
\* resize raises OSError.
earth_py_render_main(p) ==
    IF ~p.ok THEN [kind |-> "No Earth", snap |-> 0]
    ELSE IF ~p.whole THEN OSError
    ELSE [kind |-> "photo", snap |-> p.image]

\* Line 155 takes date_str.split(' ')[1].
earth_py_render_left(p) ==
    IF ~p.ok THEN [kind |-> "--", snap |-> 0]
    ELSE IF Len(p.date) < 2 THEN IndexError
    ELSE [kind |-> "date", snap |-> p.image]

earth_py_render_right(p) ==
    IF ~p.ok THEN [kind |-> "--", snap |-> 0]
    ELSE [kind |-> "centre", snap |-> p.image]

\* What an iteration of the loop has done so far; wrote: line 251 has run
FirstIteration ==
    [first |-> TRUE, list |-> "none", photo |-> "none", idx |-> -1,
     wrote |-> FALSE]

LaterIteration == [FirstIteration EXCEPT !.first = FALSE]

----------------------------------------------------------------------------
InitMain ==
    /\ clock = Epoch
    /\ now = Epoch
    /\ mpc = "tick"
    /\ should_be_dimmed = FALSE
    /\ is_dimmed = FALSE
    /\ duty = NormalDuty
    /\ last_activity = Epoch
    /\ dim_activity = Epoch
    /\ press_since_dim = FALSE
    /\ screens_swapped = FALSE
    /\ last_swap_time = Epoch
    /\ current_page = "weather"
    /\ weather_ref = [data |-> NoData, last_fetch |-> 0]
    /\ earth_ref = [data |-> NoData, last_fetch |-> 0]
    /\ earth_image_cache = 0
    /\ wfetch = {}
    /\ wstored = {}
    /\ erun = {}
    /\ ecached = {}
    /\ estored = {}
    /\ frame_buffers = [p \in Pages |-> [main |-> None, left |-> None, right |-> None]]
    /\ buffer_lock = "free"
    /\ earth_data = NoData
    /\ page_buffer = "weather"
    /\ rendered = FALSE
    /\ panels = [main |-> Blank, left |-> Blank, right |-> Blank]
    /\ k2pc = "idle"
    /\ presses = 0
    /\ queued = 0
    /\ instant = FALSE
    /\ aborted = FALSE
    /\ weather = NoData
    /\ exc = "none"
    /\ cleaned = {}
    /\ swallowed = FALSE
    /\ tick_snap = [p \in Pages |-> NoData]

\* earth.py lines 215-219
InitEarthPy ==
    /\ epc = "top"
    /\ photos_list = <<>>
    /\ last_list_fetch = 0
    /\ current_photo = [ok |-> FALSE]
    /\ last_photo_hour = -1
    /\ display_dirty = TRUE
    /\ iteration = FirstIteration
    /\ attempt_hour = -1

Init ==
    /\ InitMain
    /\ InitEarthPy
    /\ wx = Reading(18, 2, 270)
    /\ drawn = NotDrawn

\* The render helpers handed any reading of the bounded sets
InitDraw ==
    /\ InitMain
    /\ InitEarthPy
    /\ wx \in Readings
    /\ drawn = NotDrawn

----------------------------------------------------------------------------
(* The main loop *)

\* Line 589.
WeatherDue ==
    now - weather_ref.last_fetch >= UPDATE_SECONDS \/ weather_ref.last_fetch = 0

EarthDueStrict ==
    now - earth_ref.last_fetch > EARTH_UPDATE_SECONDS \/ earth_ref.last_fetch = 0

\* Line 593.
EarthDue ==
    now - earth_ref.last_fetch >= EARTH_UPDATE_SECONDS \/ earth_ref.last_fetch = 0

SwapDueStrict == now - last_swap_time > SWAP_INTERVAL

\* Line 597.
SwapDue == now - last_swap_time >= SWAP_INTERVAL

ShouldBeDimmedStrict(t) == t - last_activity > DIM_TIMEOUT

\* Lines 603-604.
ShouldBeDimmed(t) == t - last_activity >= DIM_TIMEOUT

\* Line 606.
DimNow(should, dimmed) == should /\ ~dimmed

RestoreWheneverDimmed(should, dimmed) == dimmed

\* Line 613.
RestoreNow(should, dimmed) == ~should /\ dimmed

\* The process lives as long as its main thread: the fetch threads are daemon
\* threads (lines 469, 482) and so are the button library's.
Running == mpc # "exit"

LockIgnored == TRUE

LockFreeOfFetches ==
    /\ buffer_lock = "free"
    /\ wfetch = {} /\ wstored = {}
    /\ erun = {} /\ ecached = {} /\ estored = {}

\* buffer_lock can be taken (lines 524, 546, 624).
LockFree == buffer_lock = "free"

\* What the frame cache would hold if it were recomputed now.
FreshFrames ==
    [p \in Pages |->
        IF p = "weather" THEN RenderWeatherPage(weather_ref.data, screens_swapped)
        ELSE RenderEarthPage(earth_ref.data, earth_image_cache)]

ShowRerendered(page) == FreshFrames[page]

ShowMainOnly(page) == [panels EXCEPT !.main = frame_buffers[page].main]

\* Lines 547 and 625: the page's entry of the frame cache, whose three bitmaps
\* the ShowImage calls of lines 549-551 and 627-629 take.
ShowPage(page) == frame_buffers[page]

\* Lines 548 and 626.
Filled(page) == frame_buffers[page].main # None

ToggleStuck(page) == "earth"

\* Line 562.
Toggle(page) == IF page = "weather" THEN "earth" ELSE "weather"

\* Lines 585-586: the tick reads the clock.
TickStart ==
    /\ mpc = "tick"
    /\ now' = clock
    /\ rendered' = FALSE
    /\ tick_snap' = [p \in Pages |-> IF p = "weather" THEN weather_ref.data
                                                     ELSE earth_ref.data]
    /\ mpc' = "wcheck"
    /\ UNCHANGED <<clock, should_be_dimmed, is_dimmed, duty, last_activity,
                   dim_activity, press_since_dim, screens_swapped,
                   last_swap_time, current_page, weather_ref, earth_ref,
                   earth_image_cache, wfetch, wstored, erun, ecached, estored,
                   frame_buffers, buffer_lock, weather, earth_data,
                   page_buffer, panels, k2pc, presses, queued, instant, aborted, exc, cleaned,
                   swallowed, earthVars, drawVars>>

\* Lines 589-590: launch a weather fetch when one is due.
CheckWeather ==
    /\ mpc = "wcheck"
    /\ IF WeatherDue
       THEN /\ Cardinality(wfetch \cup wstored) < MaxInFlight
            /\ wfetch' = wfetch \cup {now}
       ELSE wfetch' = wfetch
    /\ mpc' = "echeck"
    /\ UNCHANGED <<clock, now, should_be_dimmed, is_dimmed, duty,
                   last_activity, dim_activity, press_since_dim,
                   screens_swapped, last_swap_time, current_page, weather_ref,
                   earth_ref, earth_image_cache, wstored, erun, ecached,
                   estored, frame_buffers, buffer_lock, weather, earth_data,
                   page_buffer, rendered, panels, k2pc, presses, queued, instant, aborted, exc,
                   cleaned, swallowed, tick_snap, earthVars, drawVars>>

\* Lines 593-594: launch an earth fetch when one is due.
CheckEarth ==
    /\ mpc = "echeck"
    /\ IF EarthDue
       THEN /\ Cardinality(erun \cup ecached \cup estored) < MaxInFlight
            /\ erun' = erun \cup {now}
       ELSE erun' = erun
    /\ mpc' = "swap"
    /\ UNCHANGED <<clock, now, should_be_dimmed, is_dimmed, duty,
                   last_activity, dim_activity, press_since_dim,
                   screens_swapped, last_swap_time, current_page, weather_ref,
                   earth_ref, earth_image_cache, wfetch, wstored, ecached,
                   estored, frame_buffers, buffer_lock, weather, earth_data,
                   page_buffer, rendered, panels, k2pc, presses, queued, instant, aborted, exc,
                   cleaned, swallowed, tick_snap, earthVars, drawVars>>

\* Lines 597-598: flip the layout variant when the swap is due.
CheckSwap ==
    /\ mpc = "swap"
    /\ IF SwapDue
       THEN /\ screens_swapped' = ~screens_swapped
            /\ mpc' = "swapped"
       ELSE /\ screens_swapped' = screens_swapped
            /\ mpc' = "idle"
    /\ UNCHANGED <<clock, now, should_be_dimmed, is_dimmed, duty,
                   last_activity, dim_activity, press_since_dim,
                   last_swap_time, current_page, weather_ref, earth_ref,
                   earth_image_cache, wfetch, wstored, erun, ecached, estored,
                   frame_buffers, buffer_lock, weather, earth_data,
                   page_buffer, rendered, panels, k2pc, presses, queued, instant, aborted, exc,
                   cleaned, swallowed, tick_snap, earthVars, drawVars>>

\* Line 599.
SwapStamp ==
    /\ mpc = "swapped"
    /\ last_swap_time' = now
    /\ mpc' = "idle"
    /\ UNCHANGED <<clock, now, should_be_dimmed, is_dimmed, duty,
                   last_activity, dim_activity, press_since_dim,
                   screens_swapped, current_page, weather_ref, earth_ref,
                   earth_image_cache, wfetch, wstored, erun, ecached, estored,
                   frame_buffers, buffer_lock, weather, earth_data,
                   page_buffer, rendered, panels, k2pc, presses, queued, instant, aborted, exc,
                   cleaned, swallowed, tick_snap, earthVars, drawVars>>

\* Lines 603-604: compare the idle time with the dim timeout.
CheckIdle ==
    /\ mpc = "idle"
    /\ should_be_dimmed' = ShouldBeDimmed(now)
    /\ dim_activity' = IF ~is_dimmed THEN last_activity ELSE dim_activity
    /\ mpc' = "dim"
    /\ UNCHANGED <<clock, now, is_dimmed, duty, last_activity,
                   press_since_dim, screens_swapped, last_swap_time,
                   current_page, weather_ref, earth_ref, earth_image_cache,
                   wfetch, wstored, erun, ecached, estored, frame_buffers,
                   buffer_lock, weather, earth_data, page_buffer, rendered,
                   panels, k2pc, presses, queued, instant, aborted, exc, cleaned, swallowed,
                   tick_snap, earthVars, drawVars>>

\* The branch of lines 606-618 the tick is in: is_dimmed is written last, so
\* the test of line 606 tells the branches apart until then.
Dimming == DimNow(should_be_dimmed, is_dimmed)

\* The duty cycles the branch sets: lines 608-610 or 615-617.
BranchDuty == IF Dimming THEN DimmedDuty ELSE NormalDuty

\* Lines 606-608 and 613-615: the tests, and the main panel's bl_DutyCycle call
\* of the branch taken.
Dim ==
    /\ mpc = "dim"
    /\ IF Dimming \/ RestoreNow(should_be_dimmed, is_dimmed)
       THEN /\ duty' = [duty EXCEPT !.main = BranchDuty.main]
            /\ mpc' = "dim_left"
       ELSE /\ duty' = duty
            /\ mpc' = "upd"
    /\ UNCHANGED <<clock, now, should_be_dimmed, is_dimmed, last_activity,
                   dim_activity, press_since_dim, screens_swapped,
                   last_swap_time, current_page, weather_ref, earth_ref,
                   earth_image_cache, wfetch, wstored, erun, ecached, estored,
                   frame_buffers, buffer_lock, weather, earth_data,
                   page_buffer, rendered, panels, k2pc, presses, queued, instant, aborted, exc,
                   cleaned, swallowed, tick_snap, earthVars, drawVars>>

\* Line 609 or 616.
DimLeft ==
    /\ mpc = "dim_left"
    /\ duty' = [duty EXCEPT !.left = BranchDuty.left]
    /\ mpc' = "dim_right"
    /\ UNCHANGED <<clock, now, should_be_dimmed, is_dimmed, last_activity,
                   dim_activity, press_since_dim, screens_swapped,
                   last_swap_time, current_page, weather_ref, earth_ref,
                   earth_image_cache, wfetch, wstored, erun, ecached, estored,
                   frame_buffers, buffer_lock, weather, earth_data,
                   page_buffer, rendered, panels, k2pc, presses, queued, instant, aborted, exc,
                   cleaned, swallowed, tick_snap, earthVars, drawVars>>

\* Line 610 or 617.
DimRight ==
    /\ mpc = "dim_right"
    /\ duty' = [duty EXCEPT !.right = BranchDuty.right]
    /\ mpc' = "dim_flag"
    /\ UNCHANGED <<clock, now, should_be_dimmed, is_dimmed, last_activity,
                   dim_activity, press_since_dim, screens_swapped,
                   last_swap_time, current_page, weather_ref, earth_ref,
                   earth_image_cache, wfetch, wstored, erun, ecached, estored,
                   frame_buffers, buffer_lock, weather, earth_data,
                   page_buffer, rendered, panels, k2pc, presses, queued, instant, aborted, exc,
                   cleaned, swallowed, tick_snap, earthVars, drawVars>>

\* Line 611 or 618.
DimFlag ==
    /\ mpc = "dim_flag"
    /\ is_dimmed' = Dimming
    /\ press_since_dim' = IF Dimming THEN FALSE ELSE press_since_dim
    /\ mpc' = "upd"
    /\ UNCHANGED <<clock, now, should_be_dimmed, duty, last_activity,
                   dim_activity, screens_swapped, last_swap_time,
                   current_page, weather_ref, earth_ref, earth_image_cache,
                   wfetch, wstored, erun, ecached, estored, frame_buffers,
                   buffer_lock, weather, earth_data, page_buffer, rendered,
                   panels, k2pc, presses, queued, instant, aborted, exc, cleaned, swallowed,
                   tick_snap, earthVars, drawVars>>

\* update_frame_buffers, line 524: take buffer_lock.
UpdateAcquire ==
    /\ LockFree
    /\ buffer_lock' = "update"
    /\ mpc' = "read"
    /\ UNCHANGED <<clock, now, should_be_dimmed, is_dimmed, duty,
                   last_activity, dim_activity, press_since_dim,
                   screens_swapped, last_swap_time, current_page, weather_ref,
                   earth_ref, earth_image_cache, wfetch, wstored, erun,
                   ecached, estored, frame_buffers, weather, earth_data,
                   page_buffer, rendered, panels, k2pc, presses, queued, instant, aborted, exc,
                   cleaned, swallowed, tick_snap, earthVars, drawVars>>

\* Line 621: every tick calls update_frame_buffers.
Upd ==
    /\ mpc = "upd"
    /\ UpdateAcquire

\* update_frame_buffers, lines 525-527: wifi_status(), then the two snapshots
\* are read into the locals.
UpdRead ==
    /\ mpc = "read"
    /\ weather' = weather_ref.data
    /\ earth_data' = earth_ref.data
    /\ mpc' = "wmain"
    /\ UNCHANGED <<clock, now, should_be_dimmed, is_dimmed, duty,
                   last_activity, dim_activity, press_since_dim,
                   screens_swapped, last_swap_time, current_page, weather_ref,
                   earth_ref, earth_image_cache, wfetch, wstored, erun,
                   ecached, estored, frame_buffers, buffer_lock, page_buffer,
                   rendered, panels, k2pc, presses, queued, instant, aborted, exc, cleaned,
                   swallowed, tick_snap, earthVars, drawVars>>

\* The bitmap update_frame_buffers has just rendered goes into its slot.
Store(page, panel, bitmap) ==
    frame_buffers' = [frame_buffers EXCEPT ![page][panel] = bitmap]

\* update_frame_buffers, line 530: the weather page's main bitmap.
UpdWeatherMain ==
    /\ mpc = "wmain"
    /\ Store("weather", "main", render_main(weather))
    /\ mpc' = "wleft"
    /\ UNCHANGED <<clock, now, should_be_dimmed, is_dimmed, duty,
                   last_activity, dim_activity, press_since_dim,
                   screens_swapped, last_swap_time, current_page, weather_ref,
                   earth_ref, earth_image_cache, wfetch, wstored, erun,
                   ecached, estored, buffer_lock, weather, earth_data,
                   page_buffer, rendered, panels, k2pc, presses, queued, instant, aborted, exc,
                   cleaned, swallowed, tick_snap, earthVars, drawVars>>

\* update_frame_buffers, lines 531-532 and 535: the weather page's left bitmap.
UpdWeatherLeft ==
    /\ mpc = "wleft"
    /\ Store("weather", "left", RenderWeatherPage(weather, screens_swapped).left)
    /\ mpc' = "wright"
    /\ UNCHANGED <<clock, now, should_be_dimmed, is_dimmed, duty,
                   last_activity, dim_activity, press_since_dim,
                   screens_swapped, last_swap_time, current_page, weather_ref,
                   earth_ref, earth_image_cache, wfetch, wstored, erun,
                   ecached, estored, buffer_lock, weather, earth_data,
                   page_buffer, rendered, panels, k2pc, presses, queued, instant, aborted, exc,
                   cleaned, swallowed, tick_snap, earthVars, drawVars>>

\* update_frame_buffers, lines 533 and 536: the weather page's right bitmap.
UpdWeatherRight ==
    /\ mpc = "wright"
    /\ Store("weather", "right", RenderWeatherPage(weather, screens_swapped).right)
    /\ mpc' = "earth"
    /\ UNCHANGED <<clock, now, should_be_dimmed, is_dimmed, duty,
                   last_activity, dim_activity, press_since_dim,
                   screens_swapped, last_swap_time, current_page, weather_ref,
                   earth_ref, earth_image_cache, wfetch, wstored, erun,
                   ecached, estored, buffer_lock, weather, earth_data,
                   page_buffer, rendered, panels, k2pc, presses, queued, instant, aborted, exc,
                   cleaned, swallowed, tick_snap, earthVars, drawVars>>

\* update_frame_buffers, line 539: the earth page's main bitmap.
UpdEarthMain ==
    /\ mpc = "earth"
    /\ Store("earth", "main", render_main_earth(earth_data, earth_image_cache))
    /\ mpc' = "eleft"
    /\ UNCHANGED <<clock, now, should_be_dimmed, is_dimmed, duty,
                   last_activity, dim_activity, press_since_dim,
                   screens_swapped, last_swap_time, current_page, weather_ref,
                   earth_ref, earth_image_cache, wfetch, wstored, erun,
                   ecached, estored, buffer_lock, weather, earth_data,
                   page_buffer, rendered, panels, k2pc, presses, queued, instant, aborted, exc,
                   cleaned, swallowed, tick_snap, earthVars, drawVars>>

\* update_frame_buffers, line 540: the earth page's left bitmap.  An exception
\* of render_left_earth leaves the with block, which releases buffer_lock, and
\* then the loop and main(): line 634 catches KeyboardInterrupt only.
UpdEarthLeft ==
    /\ mpc = "eleft"
    /\ IF render_left_earth(earth_data) = IndexError
       THEN /\ frame_buffers' = frame_buffers
            /\ buffer_lock' = "free"
            /\ exc' = "IndexError"
            /\ mpc' = "exit"
       ELSE /\ Store("earth", "left", render_left_earth(earth_data))
            /\ mpc' = "eright"
            /\ UNCHANGED <<buffer_lock, exc>>
    /\ UNCHANGED <<clock, now, should_be_dimmed, is_dimmed, duty,
                   last_activity, dim_activity, press_since_dim,
                   screens_swapped, last_swap_time, current_page, weather_ref,
                   earth_ref, earth_image_cache, wfetch, wstored, erun,
                   ecached, estored, weather, earth_data, page_buffer,
                   rendered, panels, k2pc, presses, queued, instant, aborted, cleaned,
                   swallowed, tick_snap, earthVars, drawVars>>

\* update_frame_buffers, line 541: the earth page's right bitmap; the with
\* block ends and releases buffer_lock.
UpdEarthRight ==
    /\ mpc = "eright"
    /\ Store("earth", "right", render_right_earth(earth_data))
    /\ buffer_lock' = "free"
    /\ rendered' = TRUE
    /\ mpc' = "disp"
    /\ UNCHANGED <<clock, now, should_be_dimmed, is_dimmed, duty,
                   last_activity, dim_activity, press_since_dim,
                   screens_swapped, last_swap_time, current_page, weather_ref,
                   earth_ref, earth_image_cache, wfetch, wstored, erun,
                   ecached, estored, weather, earth_data, page_buffer, panels,
                   k2pc, presses, queued, instant, aborted, exc, cleaned, swallowed, tick_snap,
                   earthVars, drawVars>>

\* Lines 624-625: take buffer_lock, pick the current page's buffer.
DispAcquire ==
    /\ mpc = "disp"
    /\ LockFree
    /\ buffer_lock' = "main"
    /\ page_buffer' = current_page
    /\ mpc' = "show"
    /\ UNCHANGED <<clock, now, should_be_dimmed, is_dimmed, duty,
                   last_activity, dim_activity, press_since_dim,
                   screens_swapped, last_swap_time, current_page, weather_ref,
                   earth_ref, earth_image_cache, wfetch, wstored, erun,
                   ecached, estored, frame_buffers, weather, earth_data,
                   rendered, panels, k2pc, presses, queued, instant, aborted, exc, cleaned,
                   swallowed, tick_snap, earthVars, drawVars>>

\* Lines 626-627: the test, and the main panel's ShowImage call; when the page
\* is not filled the with block ends and releases the lock.
Show ==
    /\ mpc = "show"
    /\ IF Filled(page_buffer)
       THEN /\ panels' = [panels EXCEPT !.main = ShowPage(page_buffer).main]
            /\ mpc' = "show_left"
            /\ buffer_lock' = buffer_lock
       ELSE /\ panels' = panels
            /\ buffer_lock' = "free"
            /\ mpc' = "sleep"
    /\ UNCHANGED <<clock, now, should_be_dimmed, is_dimmed, duty,
                   last_activity, dim_activity, press_since_dim,
                   screens_swapped, last_swap_time, current_page, weather_ref,
                   earth_ref, earth_image_cache, wfetch, wstored, erun,
                   ecached, estored, frame_buffers, weather, earth_data,
                   page_buffer, rendered, k2pc, presses, queued, instant, aborted, exc,
                   cleaned, swallowed, tick_snap, earthVars, drawVars>>

\* Line 628.
ShowLeft ==
    /\ mpc = "show_left"
    /\ panels' = [panels EXCEPT !.left = ShowPage(page_buffer).left]
    /\ mpc' = "show_right"
    /\ UNCHANGED <<clock, now, should_be_dimmed, is_dimmed, duty,
                   last_activity, dim_activity, press_since_dim,
                   screens_swapped, last_swap_time, current_page, weather_ref,
                   earth_ref, earth_image_cache, wfetch, wstored, erun,
                   ecached, estored, frame_buffers, buffer_lock, weather,
                   earth_data, page_buffer, rendered, k2pc, presses, queued, instant, aborted,
                   exc, cleaned, swallowed, tick_snap, earthVars, drawVars>>

\* Line 629; the with block ends and releases the lock.
ShowRight ==
    /\ mpc = "show_right"
    /\ panels' = [panels EXCEPT !.right = ShowPage(page_buffer).right]
    /\ buffer_lock' = "free"
    /\ aborted' = FALSE
    /\ mpc' = "sleep"
    /\ UNCHANGED <<clock, now, should_be_dimmed, is_dimmed, duty,
                   last_activity, dim_activity, press_since_dim,
                   screens_swapped, last_swap_time, current_page, weather_ref,
                   earth_ref, earth_image_cache, wfetch, wstored, erun,
                   ecached, estored, frame_buffers, weather, earth_data,
                   page_buffer, rendered, k2pc, presses, queued, instant, exc,
                   cleaned, swallowed, tick_snap, earthVars, drawVars>>

\* Line 632: time.sleep(LOOP_INTERVAL); the loop resumes at an instant of T.
SleepUntil(T) ==
    /\ mpc = "sleep"
    /\ \E t \in T : t >= clock + LOOP_INTERVAL /\ clock' = t
    /\ mpc' = "tick"
    /\ UNCHANGED <<now, should_be_dimmed, is_dimmed, duty, last_activity,
                   dim_activity, press_since_dim, screens_swapped,
                   last_swap_time, current_page, weather_ref, earth_ref,
                   earth_image_cache, wfetch, wstored, erun, ecached, estored,
                   frame_buffers, buffer_lock, weather, earth_data,
                   page_buffer, rendered, panels, k2pc, presses, queued, instant, aborted, exc,
                   cleaned, swallowed, tick_snap, earthVars, drawVars>>

----------------------------------------------------------------------------
(* The ways the main loop ends *)

\* The order of the displays in the ShowImage calls, lines 627-629, and in the
\* handler's loop, line 637.
PanelOrder == <<"main", "left", "right">>

\* Lines 627-629 when the ShowImage call the loop has come to raises (the
\* driver's SPI write fails): the exception leaves the with block, which
\* releases buffer_lock, and then the loop and main(): line 634 catches
\* KeyboardInterrupt only.
ShowRaise ==
    /\ mpc \in {"show", "show_left", "show_right"}
    /\ Filled(page_buffer)
    /\ buffer_lock' = "free"
    /\ exc' = "ShowImage"
    /\ mpc' = "exit"
    /\ UNCHANGED <<clock, now, should_be_dimmed, is_dimmed, duty,
                   last_activity, dim_activity, press_since_dim,
                   screens_swapped, last_swap_time, current_page, weather_ref,
                   earth_ref, earth_image_cache, wfetch, wstored, erun,
                   ecached, estored, frame_buffers, weather, earth_data,
                   page_buffer, rendered, panels, k2pc, presses, queued, instant, aborted,
                   cleaned, swallowed, tick_snap, earthVars, drawVars>>

\* Line 634: a KeyboardInterrupt (Ctrl-C, SIGINT) is raised in the main thread
\* wherever it is in the loop; a with block it leaves releases buffer_lock, and
\* the handler starts.  main() is still alive: the fetch threads and the button
\* callbacks go on running while it clears the displays without the lock.
Interrupt ==
    /\ Running
    /\ mpc \notin {"clear", "module_exit"}
    /\ buffer_lock' = IF buffer_lock \in {"update", "main"} THEN "free" ELSE buffer_lock
    /\ exc' = "KeyboardInterrupt"
    /\ mpc' = "clear"
    /\ UNCHANGED <<clock, now, should_be_dimmed, is_dimmed, duty,
                   last_activity, dim_activity, press_since_dim,
                   screens_swapped, last_swap_time, current_page, weather_ref,
                   earth_ref, earth_image_cache, wfetch, wstored, erun,
                   ecached, estored, frame_buffers, weather, earth_data,
                   page_buffer, rendered, panels, k2pc, presses, queued, instant, aborted,
                   cleaned, swallowed, tick_snap, earthVars, drawVars>>

\* The main thread is in wifi_status(), line 525, or in a render function that
\* asks f() for a font: render_main_earth does so for its placeholder only.
InBareExcept ==
    \/ mpc \in {"read", "wmain", "wleft", "wright", "eleft", "eright"}
    \/ mpc = "earth" /\ ~earth_data.ok

\* Lines 73-75 and 108-119: a KeyboardInterrupt raised inside wifi_status() or
\* f() is caught by their bare "except:": the handler of line 634 never sees
\* it and the loop goes on.
InterruptSwallowed ==
    /\ InBareExcept
    /\ swallowed' = TRUE
    /\ UNCHANGED <<clock, now, mpc, should_be_dimmed, is_dimmed, duty,
                   last_activity, dim_activity, press_since_dim,
                   screens_swapped, last_swap_time, current_page, weather_ref,
                   earth_ref, earth_image_cache, wfetch, wstored, erun,
                   ecached, estored, frame_buffers, buffer_lock, weather,
                   earth_data, page_buffer, rendered, panels, k2pc, presses, queued,
                   instant, aborted, exc, cleaned, tick_snap, earthVars, drawVars>>

\* Line 637: the display the handler's loop has come to.
NextToClean == PanelOrder[Cardinality(cleaned) + 1]

\* Line 638: d.clear().
CleanupClear ==
    /\ mpc = "clear"
    /\ panels' = [panels EXCEPT ![NextToClean] = Blank]
    /\ mpc' = "module_exit"
    /\ UNCHANGED <<clock, now, should_be_dimmed, is_dimmed, duty,
                   last_activity, dim_activity, press_since_dim,
                   screens_swapped, last_swap_time, current_page, weather_ref,
                   earth_ref, earth_image_cache, wfetch, wstored, erun,
                   ecached, estored, frame_buffers, buffer_lock, weather,
                   earth_data, page_buffer, rendered, k2pc, presses, queued, instant, aborted,
                   exc, cleaned, swallowed, tick_snap, earthVars, drawVars>>

\* Line 639: d.module_exit(); after the last display main() returns.
CleanupModuleExit ==
    /\ mpc = "module_exit"
    /\ cleaned' = cleaned \cup {NextToClean}
    /\ mpc' = IF cleaned' = Displays THEN "exit" ELSE "clear"
    /\ UNCHANGED <<clock, now, should_be_dimmed, is_dimmed, duty,
                   last_activity, dim_activity, press_since_dim,
                   screens_swapped, last_swap_time, current_page, weather_ref,
                   earth_ref, earth_image_cache, wfetch, wstored, erun,
                   ecached, estored, frame_buffers, buffer_lock, weather,
                   earth_data, page_buffer, rendered, panels, k2pc, presses, queued,
                   instant, aborted, exc, swallowed, tick_snap, earthVars, drawVars>>

\* Lines 635-639: a second KeyboardInterrupt, raised while the handler runs,
\* has no handler: main() ends where the handler was.
InterruptAgain ==
    /\ mpc \in {"clear", "module_exit"}
    /\ mpc' = "exit"
    /\ UNCHANGED <<clock, now, should_be_dimmed, is_dimmed, duty,
                   last_activity, dim_activity, press_since_dim,
                   screens_swapped, last_swap_time, current_page, weather_ref,
                   earth_ref, earth_image_cache, wfetch, wstored, erun,
                   ecached, estored, frame_buffers, buffer_lock, weather,
                   earth_data, page_buffer, rendered, panels, k2pc, presses, queued,
                   instant, aborted, exc, cleaned, swallowed, tick_snap, earthVars,
                   drawVars>>

\* A termination signal (SIGTERM: kill, systemctl stop, shutdown) reaches the
\* process: no handler is installed, the process ends where it is.
Terminate ==
    /\ Running
    /\ exc' = "SIGTERM"
    /\ mpc' = "exit"
    /\ UNCHANGED <<clock, now, should_be_dimmed, is_dimmed, duty,
                   last_activity, dim_activity, press_since_dim,
                   screens_swapped, last_swap_time, current_page, weather_ref,
                   earth_ref, earth_image_cache, wfetch, wstored, erun,
                   ecached, estored, frame_buffers, buffer_lock, weather,
                   earth_data, page_buffer, rendered, panels, k2pc, presses, queued,
                   instant, aborted, cleaned, swallowed, tick_snap, earthVars,
                   drawVars>>

----------------------------------------------------------------------------
(* The fetch threads *)

\* fetch_weather_async._fetch, fetch_weather returned ok: lines 464-465.
WeatherStore(t) ==
    /\ Running
    /\ t \in wfetch
    /\ weather_ref' = [weather_ref EXCEPT !.data = Snapshot(t)]
    /\ wfetch' = wfetch \ {t}
    /\ wstored' = wstored \cup {t}
    /\ UNCHANGED <<clock, now, mpc, should_be_dimmed, is_dimmed, duty,
                   last_activity, dim_activity, press_since_dim,
                   screens_swapped, last_swap_time, current_page, earth_ref,
                   earth_image_cache, erun, ecached, estored, frame_buffers,
                   buffer_lock, weather, earth_data, page_buffer, rendered,
                   panels, k2pc, presses, queued, instant, aborted, exc, cleaned, swallowed,
                   tick_snap, earthVars, drawVars>>

\* fetch_weather_async._fetch, lines 466-467: the thread ends.
WeatherStamp(t) ==
    /\ Running
    /\ t \in wstored
    /\ weather_ref' = [weather_ref EXCEPT !.last_fetch = clock]
    /\ wstored' = wstored \ {t}
    /\ UNCHANGED <<clock, now, mpc, should_be_dimmed, is_dimmed, duty,
                   last_activity, dim_activity, press_since_dim,
                   screens_swapped, last_swap_time, current_page, earth_ref,
                   earth_image_cache, wfetch, erun, ecached, estored,
                   frame_buffers, buffer_lock, weather, earth_data,
                   page_buffer, rendered, panels, k2pc, presses, queued, instant, aborted, exc,
                   cleaned, swallowed, tick_snap, earthVars, drawVars>>

\* fetch_weather returned {'ok': False} (lines 191-193): the thread ends.
WeatherFail(t) ==
    /\ Running
    /\ t \in wfetch
    /\ wfetch' = wfetch \ {t}
    /\ UNCHANGED <<clock, now, mpc, should_be_dimmed, is_dimmed, duty,
                   last_activity, dim_activity, press_since_dim,
                   screens_swapped, last_swap_time, current_page, weather_ref,
                   earth_ref, earth_image_cache, wstored, erun, ecached,
                   estored, frame_buffers, buffer_lock, weather, earth_data,
                   page_buffer, rendered, panels, k2pc, presses, queued, instant, aborted, exc,
                   cleaned, swallowed, tick_snap, earthVars, drawVars>>

\* fetch_earth_photo, lines 234-236: the downloaded image is resized into the
\* module-level cache before the snapshot is returned.
EarthCache(t) ==
    /\ Running
    /\ t \in erun
    /\ earth_image_cache' = t
    /\ erun' = erun \ {t}
    /\ ecached' = ecached \cup {t}
    /\ UNCHANGED <<clock, now, mpc, should_be_dimmed, is_dimmed, duty,
                   last_activity, dim_activity, press_since_dim,
                   screens_swapped, last_swap_time, current_page, weather_ref,
                   earth_ref, wfetch, wstored, estored, frame_buffers,
                   buffer_lock, weather, earth_data, page_buffer, rendered,
                   panels, k2pc, presses, queued, instant, aborted, exc, cleaned, swallowed,
                   tick_snap, earthVars, drawVars>>

\* fetch_earth_photo raised before line 234 (no network, timeout, empty list,
\* undecodable image): {'ok': False}, the thread ends.
EarthFail(t) ==
    /\ Running
    /\ t \in erun
    /\ erun' = erun \ {t}
    /\ UNCHANGED <<clock, now, mpc, should_be_dimmed, is_dimmed, duty,
                   last_activity, dim_activity, press_since_dim,
                   screens_swapped, last_swap_time, current_page, weather_ref,
                   earth_ref, earth_image_cache, wfetch, wstored, ecached,
                   estored, frame_buffers, buffer_lock, weather, earth_data,
                   page_buffer, rendered, panels, k2pc, presses, queued, instant, aborted, exc,
                   cleaned, swallowed, tick_snap, earthVars, drawVars>>

\* fetch_earth_photo raised at lines 238-244 (round() of a centroid coordinate
\* that is no number): {'ok': False}, the thread ends, the cache stays written.
EarthFailLate(t) ==
    /\ Running
    /\ t \in ecached
    /\ ecached' = ecached \ {t}
    /\ UNCHANGED <<clock, now, mpc, should_be_dimmed, is_dimmed, duty,
                   last_activity, dim_activity, press_since_dim,
                   screens_swapped, last_swap_time, current_page, weather_ref,
                   earth_ref, earth_image_cache, wfetch, wstored, erun,
                   estored, frame_buffers, buffer_lock, weather, earth_data,
                   page_buffer, rendered, panels, k2pc, presses, queued, instant, aborted, exc,
                   cleaned, swallowed, tick_snap, earthVars, drawVars>>

\* fetch_earth_async._fetch, fetch_earth_photo returned ok: lines 477-478.
EarthStore(t) ==
    /\ Running
    /\ t \in ecached
    /\ earth_ref' = [earth_ref EXCEPT !.data = EarthSnapshot(t, DateTime)]
    /\ ecached' = ecached \ {t}
    /\ estored' = estored \cup {t}
    /\ UNCHANGED <<clock, now, mpc, should_be_dimmed, is_dimmed, duty,
                   last_activity, dim_activity, press_since_dim,
                   screens_swapped, last_swap_time, current_page, weather_ref,
                   earth_image_cache, wfetch, wstored, erun, frame_buffers,
                   buffer_lock, weather, earth_data, page_buffer, rendered,
                   panels, k2pc, presses, queued, instant, aborted, exc, cleaned, swallowed,
                   tick_snap, earthVars, drawVars>>

\* fetch_earth_async._fetch, lines 477-478, when the first entry of the EPIC
\* list has a 'date' without a time part ("2025-01-01"): lines 212-213 split it
\* into year, month and day all the same and fetch_earth_photo returns ok.
EarthStoreDateOnly(t) ==
    /\ Running
    /\ t \in ecached
    /\ earth_ref' = [earth_ref EXCEPT !.data = EarthSnapshot(t, DateOnly)]
    /\ ecached' = ecached \ {t}
    /\ estored' = estored \cup {t}
    /\ UNCHANGED <<clock, now, mpc, should_be_dimmed, is_dimmed, duty,
                   last_activity, dim_activity, press_since_dim,
                   screens_swapped, last_swap_time, current_page, weather_ref,
                   earth_image_cache, wfetch, wstored, erun, frame_buffers,
                   buffer_lock, weather, earth_data, page_buffer, rendered,
                   panels, k2pc, presses, queued, instant, aborted, exc, cleaned, swallowed,
                   tick_snap, earthVars, drawVars>>

\* fetch_earth_async._fetch, lines 479-480: the thread ends.
EarthStamp(t) ==
    /\ Running
    /\ t \in estored
    /\ earth_ref' = [earth_ref EXCEPT !.last_fetch = clock]
    /\ estored' = estored \ {t}
    /\ UNCHANGED <<clock, now, mpc, should_be_dimmed, is_dimmed, duty,
                   last_activity, dim_activity, press_since_dim,
                   screens_swapped, last_swap_time, current_page, weather_ref,
                   earth_image_cache, wfetch, wstored, erun, ecached,
                   frame_buffers, buffer_lock, weather, earth_data,
                   page_buffer, rendered, panels, k2pc, presses, queued, instant, aborted, exc,
                   cleaned, swallowed, tick_snap, earthVars, drawVars>>

----------------------------------------------------------------------------
(* The button callbacks *)

Key1Toggles ==
    /\ Running
    /\ last_activity' = clock
    /\ press_since_dim' = TRUE
    /\ current_page' = Toggle(current_page)
    /\ UNCHANGED <<clock, now, mpc, should_be_dimmed, is_dimmed, duty,
                   dim_activity, screens_swapped, last_swap_time, weather_ref,
                   earth_ref, earth_image_cache, wfetch, wstored, erun,
                   ecached, estored, frame_buffers, buffer_lock, weather,
                   earth_data, page_buffer, rendered, panels, k2pc, presses, queued,
                   instant, aborted, exc, cleaned, swallowed, tick_snap, earthVars,
                   drawVars>>

\* key1_callback, lines 555-558.
Key1 ==
    /\ Running
    /\ last_activity' = clock
    /\ press_since_dim' = TRUE
    /\ UNCHANGED <<clock, now, mpc, should_be_dimmed, is_dimmed, duty,
                   dim_activity, screens_swapped, last_swap_time,
                   current_page, weather_ref, earth_ref, earth_image_cache,
                   wfetch, wstored, erun, ecached, estored, frame_buffers,
                   buffer_lock, weather, earth_data, page_buffer, rendered,
                   panels, k2pc, presses, queued, instant, aborted, exc, cleaned, swallowed,
                   tick_snap, earthVars, drawVars>>

\* Lines 569-570 attach key2_callback to the button: the library's callback
\* thread runs it once for every press the operator makes, the presses one
\* after the other; a press made while an earlier one is being handled waits.
Key2Arrive ==
    /\ Running
    /\ presses < MaxPress
    /\ presses' = presses + 1
    /\ queued' = queued + 1
    /\ UNCHANGED <<clock, now, mpc, should_be_dimmed, is_dimmed, duty,
                   last_activity, dim_activity, press_since_dim,
                   screens_swapped, last_swap_time, current_page, weather_ref,
                   earth_ref, earth_image_cache, wfetch, wstored, erun,
                   ecached, estored, frame_buffers, buffer_lock, weather,
                   earth_data, page_buffer, rendered, panels, k2pc, instant,
                   aborted, exc, cleaned, swallowed, tick_snap, earthVars,
                   drawVars>>

\* key2_callback, line 562: flip the page.
Key2Press ==
    /\ Running
    /\ k2pc = "idle"
    /\ queued > 0
    /\ queued' = queued - 1
    /\ current_page' = Toggle(current_page)
    /\ k2pc' = "stamp"
    /\ UNCHANGED <<clock, now, mpc, should_be_dimmed, is_dimmed, duty,
                   last_activity, dim_activity, press_since_dim,
                   screens_swapped, last_swap_time, weather_ref, earth_ref,
                   earth_image_cache, wfetch, wstored, erun, ecached, estored,
                   frame_buffers, buffer_lock, weather, earth_data,
                   page_buffer, rendered, panels, presses, instant, aborted,
                   exc, cleaned, swallowed, tick_snap, earthVars, drawVars>>

\* key2_callback, lines 563-564: record the activity.
Key2Stamp ==
    /\ Running
    /\ k2pc = "stamp"
    /\ last_activity' = clock
    /\ press_since_dim' = TRUE
    /\ k2pc' = "render"
    /\ UNCHANGED <<clock, now, mpc, should_be_dimmed, is_dimmed, duty,
                   dim_activity, screens_swapped, last_swap_time, current_page,
                   weather_ref, earth_ref, earth_image_cache, wfetch, wstored,
                   erun, ecached, estored, frame_buffers, buffer_lock, weather,
                   earth_data, page_buffer, rendered, panels, presses, queued,
                   instant, aborted, exc, cleaned, swallowed, tick_snap,
                   earthVars, drawVars>>

\* render_current_page_now, line 546: take buffer_lock.
Key2Acquire ==
    /\ Running
    /\ k2pc = "render"
    /\ LockFree
    /\ buffer_lock' = "key2"
    /\ k2pc' = "show"
    /\ UNCHANGED <<clock, now, mpc, should_be_dimmed, is_dimmed, duty,
                   last_activity, dim_activity, press_since_dim,
                   screens_swapped, last_swap_time, current_page, weather_ref,
                   earth_ref, earth_image_cache, wfetch, wstored, erun,
                   ecached, estored, frame_buffers, weather, earth_data,
                   page_buffer, rendered, panels, presses, queued, instant,
                   aborted, exc, cleaned, swallowed, tick_snap, earthVars,
                   drawVars>>

\* render_current_page_now, lines 547-549: pick the current page's buffer; if
\* it is filled, the main panel's ShowImage call; if not, the with block ends
\* and releases the lock, and key2_callback returns.
Key2Show ==
    /\ Running
    /\ k2pc = "show"
    /\ IF Filled(current_page)
       THEN /\ panels' = [panels EXCEPT !.main = ShowPage(current_page).main]
            /\ k2pc' = "show_left"
            /\ UNCHANGED <<buffer_lock, instant>>
       ELSE /\ panels' = panels
            /\ instant' = FALSE
            /\ buffer_lock' = "free"
            /\ k2pc' = "idle"
    /\ UNCHANGED <<clock, now, mpc, should_be_dimmed, is_dimmed, duty,
                   last_activity, dim_activity, press_since_dim,
                   screens_swapped, last_swap_time, current_page, weather_ref,
                   earth_ref, earth_image_cache, wfetch, wstored, erun,
                   ecached, estored, frame_buffers, weather, earth_data,
                   page_buffer, rendered, presses, queued, aborted, exc,
                   cleaned, swallowed, tick_snap, earthVars, drawVars>>

\* render_current_page_now, line 550.
Key2ShowLeft ==
    /\ Running
    /\ k2pc = "show_left"
    /\ panels' = [panels EXCEPT !.left = ShowPage(current_page).left]
    /\ k2pc' = "show_right"
    /\ UNCHANGED <<clock, now, mpc, should_be_dimmed, is_dimmed, duty,
                   last_activity, dim_activity, press_since_dim,
                   screens_swapped, last_swap_time, current_page, weather_ref,
                   earth_ref, earth_image_cache, wfetch, wstored, erun,
                   ecached, estored, frame_buffers, buffer_lock, weather,
                   earth_data, page_buffer, rendered, presses, queued, instant,
                   aborted, exc, cleaned, swallowed, tick_snap, earthVars,
                   drawVars>>

\* render_current_page_now, lines 551-552; the with block ends and releases
\* the lock, and key2_callback returns.
Key2ShowRight ==
    /\ Running
    /\ k2pc = "show_right"
    /\ panels' = [panels EXCEPT !.right = ShowPage(current_page).right]
    /\ instant' = TRUE
    /\ aborted' = FALSE
    /\ buffer_lock' = "free"
    /\ k2pc' = "idle"
    /\ UNCHANGED <<clock, now, mpc, should_be_dimmed, is_dimmed, duty,
                   last_activity, dim_activity, press_since_dim,
                   screens_swapped, last_swap_time, current_page, weather_ref,
                   earth_ref, earth_image_cache, wfetch, wstored, erun,
                   ecached, estored, frame_buffers, weather, earth_data,
                   page_buffer, rendered, presses, queued, exc, cleaned,
                   swallowed, tick_snap, earthVars, drawVars>>

\* Lines 549-551 when the ShowImage call the callback has come to raises (the
\* driver's SPI write fails): nothing catches it in render_current_page_now
\* or key2_callback; the exception leaves the with block, which releases
\* buffer_lock, and ends the callback with the panels it had already written
\* showing the new page and the others as they were.
Key2ShowRaise ==
    /\ Running
    /\ k2pc \in {"show", "show_left", "show_right"}
    /\ Filled(current_page)
    /\ instant' = FALSE
    /\ aborted' = TRUE
    /\ buffer_lock' = "free"
    /\ k2pc' = "idle"
    /\ UNCHANGED <<clock, now, mpc, should_be_dimmed, is_dimmed, duty,
                   last_activity, dim_activity, press_since_dim,
                   screens_swapped, last_swap_time, current_page, weather_ref,
                   earth_ref, earth_image_cache, wfetch, wstored, erun,
                   ecached, estored, frame_buffers, weather, earth_data,
                   page_buffer, rendered, panels, presses, queued, exc,
                   cleaned, swallowed, tick_snap, earthVars, drawVars>>

----------------------------------------------------------------------------
(* earth.py: the loop of main() *)

\* Lines 225-226: the iteration reads the clock.
EarthPyTop ==
    /\ epc = "top"
    /\ now' = clock
    /\ epc' = "list"
    /\ UNCHANGED <<clock, panels, exc, cleaned, swallowed, photos_list,
                   last_list_fetch, current_photo, last_photo_hour,
                   display_dirty, iteration, attempt_hour, mainVars,
                   drawVars>>

ListDueStrict == now - last_list_fetch > UPDATE_LIST_SECONDS

\* Line 229.
ListDue ==
    \/ now - last_list_fetch >= UPDATE_LIST_SECONDS
    \/ photos_list = <<>>

\* Lines 229-232: refresh the photo list when it is due; fetch_photos_list
\* returns the first MAX_PHOTOS of the n images EPIC has, or the empty list
\* when it has none or the request fails; an entry's 'date' comes with or
\* without its time part.
EarthPyList ==
    /\ epc = "list"
    /\ IF ListDue
       THEN \E n \in 0..(MAX_PHOTOS + 1), date \in {DateTime, DateOnly} :
              LET new_list == PhotosList(now, n, date)
              IN  IF new_list # <<>>
                  THEN /\ photos_list' = new_list
                       /\ iteration' = [iteration EXCEPT !.list = "ok"]
                       /\ epc' = "list_time"
                  ELSE /\ photos_list' = photos_list
                       /\ iteration' = [iteration EXCEPT !.list = "failed"]
                       /\ epc' = "photo"
       ELSE /\ UNCHANGED <<photos_list, iteration>>
            /\ epc' = "photo"
    /\ UNCHANGED <<clock, now, panels, exc, cleaned, swallowed,
                   last_list_fetch, current_photo, last_photo_hour,
                   display_dirty, attempt_hour, mainVars, drawVars>>

\* Line 233.
EarthPyListTime ==
    /\ epc = "list_time"
    /\ last_list_fetch' = now
    /\ epc' = "list_hour"
    /\ UNCHANGED <<clock, now, panels, exc, cleaned, swallowed, photos_list,
                   current_photo, last_photo_hour, display_dirty, iteration,
                   attempt_hour, mainVars, drawVars>>

\* Line 235: a refreshed list forces a photo reload.
EarthPyListHour ==
    /\ epc = "list_hour"
    /\ last_photo_hour' = -1
    /\ epc' = "photo"
    /\ UNCHANGED <<clock, now, panels, exc, cleaned, swallowed, photos_list,
                   last_list_fetch, current_photo, display_dirty, iteration,
                   attempt_hour, mainVars, drawVars>>

PhotoDueAlways == photos_list # <<>>

\* Line 238
PhotoDue == photos_list # <<>> /\ Hour(now) # last_photo_hour

PhotoIndexNext == (Hour(now) + 1) % Len(photos_list)

\* Line 239
PhotoIndex == Hour(now) % Len(photos_list)

\* Lines 238-244: download the photo of the hour when one is due, and make it
\* the current photo when the download succeeds, which it also does when the
\* answer's header opens and its pixel data are cut short.
EarthPyPhoto ==
    /\ epc = "photo"
    /\ IF PhotoDue
       THEN LET idx == PhotoIndex
                human_idx == idx + 1
                total == Len(photos_list)
            IN  \E answer \in {"failed", "whole", "cut short"} :
                  IF answer # "failed"
                  THEN /\ current_photo' =
                             Photo(photos_list[idx + 1], human_idx, total,
                                   answer = "whole")
                       /\ iteration' = [iteration EXCEPT !.photo = "ok",
                                                         !.idx = idx]
                       /\ epc' = "dirty"
                  ELSE /\ current_photo' = current_photo
                       /\ iteration' = [iteration EXCEPT !.photo = "failed",
                                                         !.idx = idx]
                       /\ epc' = "hour"
       ELSE /\ UNCHANGED <<current_photo, iteration>>
            /\ epc' = "show"
    /\ UNCHANGED <<clock, now, panels, exc, cleaned, swallowed, photos_list,
                   last_list_fetch, last_photo_hour, display_dirty,
                   attempt_hour, mainVars, drawVars>>

\* Lines 245-246.
EarthPyDirty ==
    /\ epc = "dirty"
    /\ display_dirty' = TRUE
    /\ epc' = "hour"
    /\ UNCHANGED <<clock, now, panels, exc, cleaned, swallowed, photos_list,
                   last_list_fetch, current_photo, last_photo_hour, iteration,
                   attempt_hour, mainVars, drawVars>>

\* Line 247: the hour of the attempt is recorded, whether it succeeded or not.
EarthPyHour ==
    /\ epc = "hour"
    /\ last_photo_hour' = Hour(now)
    /\ attempt_hour' = Hour(now)
    /\ epc' = "show"
    /\ UNCHANGED <<clock, now, panels, exc, cleaned, swallowed, photos_list,
                   last_list_fetch, current_photo, display_dirty, iteration,
                   mainVars, drawVars>>

WriteAlways == TRUE

\* Line 250
WriteDue == display_dirty

\* Lines 250-251: when something changed, the main panel's ShowImage call.
\* When render_main raises, nothing is written and the exception leaves the
\* loop and main(): line 258 catches KeyboardInterrupt only.
EarthPyShow ==
    /\ epc = "show"
    /\ IF WriteDue
       THEN IF earth_py_render_main(current_photo) = OSError
            THEN /\ UNCHANGED <<panels, iteration>>
                 /\ exc' = "OSError"
                 /\ epc' = "exit"
            ELSE /\ panels' = [panels EXCEPT
                                  !.main = earth_py_render_main(current_photo)]
                 /\ iteration' = [iteration EXCEPT !.wrote = TRUE]
                 /\ exc' = exc
                 /\ epc' = "show_left"
       ELSE /\ UNCHANGED <<panels, iteration, exc>>
            /\ epc' = "sleep"
    /\ UNCHANGED <<clock, now, cleaned, swallowed, photos_list,
                   last_list_fetch, current_photo, last_photo_hour,
                   display_dirty, attempt_hour, mainVars, drawVars>>

\* Line 252.  When render_left raises, the exception leaves the loop and
\* main(): line 258 catches KeyboardInterrupt only.
EarthPyShowLeft ==
    /\ epc = "show_left"
    /\ IF earth_py_render_left(current_photo) = IndexError
       THEN /\ panels' = panels
            /\ exc' = "IndexError"
            /\ epc' = "exit"
       ELSE /\ panels' = [panels EXCEPT
                             !.left = earth_py_render_left(current_photo)]
            /\ exc' = exc
            /\ epc' = "show_right"
    /\ UNCHANGED <<clock, now, cleaned, swallowed, photos_list,
                   last_list_fetch, current_photo, last_photo_hour,
                   display_dirty, iteration, attempt_hour, mainVars,
                   drawVars>>

\* Line 253.
EarthPyShowRight ==
    /\ epc = "show_right"
    /\ panels' = [panels EXCEPT !.right = earth_py_render_right(current_photo)]
    /\ epc' = "clean"
    /\ UNCHANGED <<clock, now, exc, cleaned, swallowed, photos_list,
                   last_list_fetch, current_photo, last_photo_hour,
                   display_dirty, iteration, attempt_hour, mainVars,
                   drawVars>>

\* Line 254.
EarthPyClean ==
    /\ epc = "clean"
    /\ display_dirty' = FALSE
    /\ epc' = "sleep"
    /\ UNCHANGED <<clock, now, panels, exc, cleaned, swallowed, photos_list,
                   last_list_fetch, current_photo, last_photo_hour, iteration,
                   attempt_hour, mainVars, drawVars>>

\* Line 256: the next iteration starts at an instant of T, no sooner than
\* SLEEP_SECONDS after this one read the clock.
EarthPySleep(T) ==
    /\ epc = "sleep"
    /\ \E t \in T :
         /\ t >= now + SLEEP_SECONDS
         /\ clock' = t
    /\ iteration' = LaterIteration
    /\ epc' = "top"
    /\ UNCHANGED <<now, panels, exc, cleaned, swallowed, photos_list,
                   last_list_fetch, current_photo, last_photo_hour,
                   display_dirty, attempt_hour, mainVars, drawVars>>

\* Line 258: a KeyboardInterrupt is raised wherever the loop is, and the
\* handler starts.
EarthPyInterrupt ==
    /\ epc \notin {"clear", "module_exit", "exit"}
    /\ exc' = "KeyboardInterrupt"
    /\ epc' = "clear"
    /\ UNCHANGED <<clock, now, panels, cleaned, swallowed, photos_list,
                   last_list_fetch, current_photo, last_photo_hour,
                   display_dirty, iteration, attempt_hour, mainVars,
                   drawVars>>

\* The render function the loop is about to call asks f() for a font:
\* render_main does so for its placeholder only.
EarthPyInBareExcept ==
    \/ epc = "show" /\ WriteDue /\ ~current_photo.ok
    \/ epc \in {"show_left", "show_right"}

\* Lines 39-41: a KeyboardInterrupt raised inside f() is caught by its bare
\* "except:": the handler of line 258 never sees it and the loop goes on.
EarthPyInterruptSwallowed ==
    /\ EarthPyInBareExcept
    /\ swallowed' = TRUE
    /\ UNCHANGED <<epc, clock, now, panels, exc, cleaned, photos_list,
                   last_list_fetch, current_photo, last_photo_hour,
                   display_dirty, iteration, attempt_hour, mainVars,
                   drawVars>>

\* Line 261: d.clear().
EarthPyCleanupClear ==
    /\ epc = "clear"
    /\ panels' = [panels EXCEPT ![NextToClean] = Blank]
    /\ epc' = "module_exit"
    /\ UNCHANGED <<clock, now, exc, cleaned, swallowed, photos_list,
                   last_list_fetch, current_photo, last_photo_hour,
                   display_dirty, iteration, attempt_hour, mainVars,
                   drawVars>>

\* Line 262: d.module_exit(); after the last display main() returns.
EarthPyCleanupModuleExit ==
    /\ epc = "module_exit"
    /\ cleaned' = cleaned \cup {NextToClean}
    /\ epc' = IF cleaned' = Displays THEN "exit" ELSE "clear"
    /\ UNCHANGED <<clock, now, panels, exc, swallowed, photos_list,
                   last_list_fetch, current_photo, last_photo_hour,
                   display_dirty, iteration, attempt_hour, mainVars,
                   drawVars>>

\* Lines 259-262: a second KeyboardInterrupt, raised while the handler runs,
\* has no handler: main() ends where the handler was.
EarthPyInterruptAgain ==
    /\ epc \in {"clear", "module_exit"}
    /\ epc' = "exit"
    /\ UNCHANGED <<clock, now, panels, exc, cleaned, swallowed, photos_list,
                   last_list_fetch, current_photo, last_photo_hour,
                   display_dirty, iteration, attempt_hour, mainVars,
                   drawVars>>

----------------------------------------------------------------------------
(* weather.py: the render functions' use of the helpers *)

\* render_main: the temperature colour and the condition label
DrawMain ==
    /\ drawn.cond = ""
    /\ drawn' = IF ~wx.ok
                THEN [drawn EXCEPT !.cond = "No Data"]
                ELSE [drawn EXCEPT !.tc = temp_col(wx.temp),
                                   !.cond = Condition(wx.code)]
    /\ UNCHANGED <<clock, now, panels, exc, cleaned, swallowed, wx, mainVars,
                   earthVars>>

\* render_humidity_wind: the direction label
DrawWind ==
    /\ drawn.dir = ""
    /\ drawn' = IF ~wx.ok
                THEN [drawn EXCEPT !.dir = "--"]
                ELSE [drawn EXCEPT !.dir = wind_dir(wx.wdir)]
    /\ UNCHANGED <<clock, now, panels, exc, cleaned, swallowed, wx, mainVars,
                   earthVars>>

----------------------------------------------------------------------------
Sleep == SleepUntil(Times)

\* Lines 589-629 but line 599: the body of a tick after it has read the clock.
TickSteps ==
    \/ CheckWeather
    \/ CheckEarth
    \/ CheckSwap
    \/ CheckIdle
    \/ Dim
    \/ DimLeft
    \/ DimRight
    \/ DimFlag
    \/ Upd
    \/ UpdRead
    \/ UpdWeatherMain
    \/ UpdWeatherLeft
    \/ UpdWeatherRight
    \/ UpdEarthMain
    \/ UpdEarthLeft
    \/ UpdEarthRight
    \/ DispAcquire
    \/ Show
    \/ ShowLeft
    \/ ShowRight

\* Lines 589-629.
TickBody == TickSteps \/ SwapStamp

MainLoop == TickStart \/ TickBody \/ Sleep

\* The fetch threads on a network that answers, fails or hangs, the EPIC
\* list's dates having their time part.
FetchThreads ==
    \/ \E t \in Times : WeatherStore(t)
    \/ \E t \in Times : WeatherStamp(t)
    \/ \E t \in Times : WeatherFail(t)
    \/ \E t \in Times : EarthCache(t)
    \/ \E t \in Times : EarthFail(t)
    \/ \E t \in Times : EarthFailLate(t)
    \/ \E t \in Times : EarthStore(t)
    \/ \E t \in Times : EarthStamp(t)

\* The KEY2 callback.
Key2 ==
    \/ Key2Arrive
    \/ Key2Press
    \/ Key2Stamp
    \/ Key2Acquire
    \/ Key2Show
    \/ Key2ShowLeft
    \/ Key2ShowRight
    \/ Key2ShowRaise

Buttons == Key1 \/ Key2

\* The operator's interrupt: lines 634-639, and the bare excepts that take it.
Interrupts ==
    \/ Interrupt
    \/ InterruptSwallowed
    \/ CleanupClear
    \/ CleanupModuleExit
    \/ InterruptAgain

\* The ways main() ends.
Exits == ShowRaise \/ Interrupts \/ Terminate

\* The whole program.
Next ==
    \/ MainLoop
    \/ FetchThreads
    \/ \E t \in Times : EarthStoreDateOnly(t)
    \/ Buttons
    \/ Exits

Spec == Init /\ [][Next]_vars

\* Of each source at most the fetch launched by the previous tick is running.
SlowFetches ==
    /\ Cardinality(wfetch \cup wstored) <= 1
    /\ Cardinality(erun \cup ecached \cup estored) <= 1

\* A tick that starts on a network on which a fetch lasts less than two ticks.
SlowTickStart == SlowFetches /\ TickStart

\* The program while nobody touches the buttons, observed at FetchTimes, on a
\* network on which a fetch can outlast the tick that launched it and the
\* launch of the next one.
NextFetch == SlowTickStart \/ TickBody \/ SleepUntil(FetchTimes) \/ FetchThreads

SpecFetch == Init /\ [][NextFetch]_vars

\* Every fetch thread has finished by the time the next tick starts.
PromptFetches ==
    /\ wfetch = {} /\ wstored = {}
    /\ erun = {} /\ ecached = {} /\ estored = {}

\* A tick that starts on a network that answers (or fails) within one tick.
PromptTickStart == PromptFetches /\ TickStart

\* The program with its buttons in use, observed at ButtonTimes, on a network
\* on which every fetch ends within one tick, a weather fetch with an answer
\* or with a failure and an earth fetch with an answer.
NextButtons ==
    \/ PromptTickStart
    \/ TickSteps
    \/ SleepUntil(ButtonTimes)
    \/ \E t \in Times : WeatherStore(t)
    \/ \E t \in Times : WeatherStamp(t)
    \/ \E t \in Times : WeatherFail(t)
    \/ \E t \in Times : EarthCache(t)
    \/ \E t \in Times : EarthStore(t)
    \/ \E t \in Times : EarthStamp(t)
    \/ Buttons

SpecButtons == Init /\ [][NextButtons]_vars

\* The program while nobody touches the buttons, observed at FetchTimes, on a
\* network that answers (or fails) within one tick.
NextPromptFetch ==
    \/ PromptTickStart
    \/ TickBody
    \/ SleepUntil(FetchTimes)
    \/ FetchThreads

SpecPromptFetch == Init /\ [][NextPromptFetch]_vars

\* The program with KEY2 in use, observed at SwapTimes, on a network on which
\* every fetch succeeds within one tick.
NextSwap ==
    \/ PromptTickStart
    \/ TickBody
    \/ SleepUntil(SwapTimes)
    \/ \E t \in Times : WeatherStore(t)
    \/ \E t \in Times : WeatherStamp(t)
    \/ \E t \in Times : EarthCache(t)
    \/ \E t \in Times : EarthStore(t)
    \/ \E t \in Times : EarthStamp(t)
    \/ Key2

SpecSwap == Init /\ [][NextSwap]_vars

\* The program with KEY1 in use, observed at SwapTimes, on a network on which
\* every fetch succeeds within one tick.
NextSwapWake ==
    \/ PromptTickStart
    \/ TickBody
    \/ SleepUntil(SwapTimes)
    \/ \E t \in Times : WeatherStore(t)
    \/ \E t \in Times : WeatherStamp(t)
    \/ \E t \in Times : EarthCache(t)
    \/ \E t \in Times : EarthStore(t)
    \/ \E t \in Times : EarthStamp(t)
    \/ Key1

SpecSwapWake == Init /\ [][NextSwapWake]_vars

\* The program while nobody touches the buttons, on a network that answers
\* within one tick, with everything that can end the main loop: an interrupt,
\* a termination signal, a failing display write, and an EPIC entry whose date
\* has no time part, which render_left_earth cannot split.
NextExit ==
    \/ PromptTickStart
    \/ TickBody
    \/ SleepUntil(FetchTimes)
    \/ FetchThreads
    \/ \E t \in Times : EarthStoreDateOnly(t)
    \/ ShowRaise
    \/ Interrupts
    \/ Terminate

SpecExit == Init /\ [][NextExit]_vars

\* The program with KEY2 in use, observed at ButtonTimes, on a network on which
\* every fetch succeeds within one tick, and interrupted by the operator.
NextInterrupt ==
    \/ PromptTickStart
    \/ TickSteps
    \/ SleepUntil(ButtonTimes)
    \/ \E t \in Times : WeatherStore(t)
    \/ \E t \in Times : WeatherStamp(t)
    \/ \E t \in Times : EarthCache(t)
    \/ \E t \in Times : EarthStore(t)
    \/ \E t \in Times : EarthStamp(t)
    \/ Key2
    \/ Interrupts

SpecInterrupt == Init /\ [][NextInterrupt]_vars

\* The network hangs: no fetch thread ever returns.
NextHung == TickStart \/ TickSteps \/ SleepUntil(ButtonTimes) \/ Buttons

SpecHung == Init /\ [][NextHung]_vars

\* The network hangs and the scheduler is fair to the main loop and to the
\* callback thread: a runnable thread runs, and a thread waiting for
\* buffer_lock gets it, the main loop leaving it free for LOOP_INTERVAL seconds
\* in every tick.  No fairness is assumed of the fetch threads.
LiveHung ==
    /\ SpecHung
    /\ WF_vars(TickStart)
    /\ WF_vars(CheckWeather)
    /\ WF_vars(CheckEarth)
    /\ WF_vars(CheckSwap)
    /\ WF_vars(CheckIdle)
    /\ WF_vars(Dim)
    /\ WF_vars(DimLeft)
    /\ WF_vars(DimRight)
    /\ WF_vars(DimFlag)
    /\ SF_vars(Upd)
    /\ WF_vars(UpdRead)
    /\ WF_vars(UpdWeatherMain)
    /\ WF_vars(UpdWeatherLeft)
    /\ WF_vars(UpdWeatherRight)
    /\ WF_vars(UpdEarthMain)
    /\ WF_vars(UpdEarthLeft)
    /\ WF_vars(UpdEarthRight)
    /\ SF_vars(DispAcquire)
    /\ WF_vars(Show)
    /\ WF_vars(ShowLeft)
    /\ WF_vars(ShowRight)
    /\ WF_vars(Key2Press)
    /\ WF_vars(Key2Stamp)
    /\ SF_vars(Key2Acquire)
    /\ WF_vars(Key2Show)
    /\ WF_vars(Key2ShowLeft)
    /\ WF_vars(Key2ShowRight)

\* earth.py's loop, observed at EarthPyTimes, on a network on which the list
\* fetch and the photo download can each succeed or fail, until an exception
\* or the operator's interrupt ends it.
NextEarthPy ==
    \/ EarthPyTop
    \/ EarthPyList
    \/ EarthPyListTime
    \/ EarthPyListHour
    \/ EarthPyPhoto
    \/ EarthPyDirty
    \/ EarthPyHour
    \/ EarthPyShow
    \/ EarthPyShowLeft
    \/ EarthPyShowRight
    \/ EarthPyClean
    \/ EarthPySleep(EarthPyTimes)
    \/ EarthPyInterrupt
    \/ EarthPyInterruptSwallowed
    \/ EarthPyCleanupClear
    \/ EarthPyCleanupModuleExit
    \/ EarthPyInterruptAgain

SpecEarthPy == Init /\ [][NextEarthPy]_vars

\* The render functions applied to one reading.
NextDraw == DrawMain \/ DrawWind

SpecDraw == InitDraw /\ [][NextDraw]_vars

----------------------------------------------------------------------------
(* Properties *)

\* C1: for each data source at most one fetch thread is alive at any time: a
\* tick never launches a fetch of a source while an earlier fetch of that
\* source has not finished.
C1_AtMostOneFetchInFlight ==
    /\ Cardinality(wfetch \cup wstored) <= 1
    /\ Cardinality(erun \cup ecached \cup estored) <= 1

\* C2: a fetch that fails leaves its source's snapshot and last_fetch as they
\* were, and what the panels are given afterwards is still the previous
\* snapshot: no bitmap rendered after the failure shows the failed fetch's data.
C2_FailedFetchLeavesNoTrace ==
    [][\A t \in Times :
          /\ WeatherFail(t) => UNCHANGED weather_ref
          /\ (EarthFail(t) \/ EarthFailLate(t)) =>
                /\ UNCHANGED earth_ref
                /\ render_main_earth(earth_ref.data, earth_image_cache').snap # t]_vars

\* C3: no tick waits for a fetch: with fetch threads that never return, every
\* tick, from its start (line 585) through the launch tests of lines 589-594,
\* reaches its display write and the end of its body, and every KEY2 press is
\* handled to the end of its callback.
C3_TickNeverWaitsForFetch ==
    /\ (mpc = "tick") ~> (mpc = "show_right")
    /\ (mpc = "show_right") ~> (mpc = "sleep")
    /\ (queued > 0) ~> (k2pc = "stamp")
    /\ (k2pc # "idle") ~> (k2pc = "idle")

\* The third tick has written the panels while the three weather fetches and
\* the three earth fetches launched so far, one by each tick, are all still
\* running, and the KEY2 presses made meanwhile have been handled.
C3_Witness ==
    /\ mpc = "sleep"
    /\ Cardinality(wfetch) = 3
    /\ Cardinality(erun) = 3
    /\ now \in wfetch
    /\ presses > 0
    /\ queued = 0
    /\ k2pc = "idle"

\* C4: the earth page's three bitmaps produced by one update_frame_buffers call
\* derive from one and the same earth snapshot: the photo on the main panel is
\* the photo of the fetch whose date and coordinates the side panels show.
C4_EarthPageFromOneSnapshot ==
    (buffer_lock # "update" /\ frame_buffers["earth"].main.kind = "photo") =>
        /\ frame_buffers["earth"].main.snap = frame_buffers["earth"].left.snap
        /\ frame_buffers["earth"].main.snap = frame_buffers["earth"].right.snap

\* C5 as stated: the frame cache is recomputed only in a tick in which a
\* snapshot changed since the last recompute or the layout variant flipped.
C5_RecomputeOnlyOnChange ==
    [][mpc = "upd" /\ mpc' = "read" => frame_buffers # FreshFrames]_vars

\* C6: handling a KEY2 press renders nothing and launches no fetch: at every
\* step of the callback, the arrival of the press included, the frame cache and
\* the set of fetch threads are as before, and what the forced redraw writes to
\* the panels is the cached page of the new current page: each panel it writes
\* gets that page's cached bitmap (also when a ShowImage error ends it after
\* zero, one or two panels), and when it has written the three the panels show
\* that page.
C6_ToggleUsesCacheOnly ==
    [][(k2pc' # k2pc \/ presses' # presses \/ queued' # queued) =>
          /\ UNCHANGED <<frame_buffers, rendered, wfetch, wstored, erun, ecached,
                         estored>>
          /\ \A d \in Displays :
                panels'[d] # panels[d] =>
                    panels'[d] = frame_buffers[current_page'][d]
          /\ (k2pc # "idle" /\ k2pc' = "idle" /\ instant') =>
                panels' = frame_buffers[current_page']]_vars

\* A forced redraw has put a photo rendered earlier on the main panel.
C6_Witness ==
    /\ k2pc = "idle"
    /\ instant
    /\ current_page = "earth"
    /\ panels.main.kind = "photo"
    /\ panels = frame_buffers["earth"]

\* The positions of a thread between taking buffer_lock for a display write
\* and its last ShowImage call.
Writing == {"show", "show_left", "show_right"}

\* C7 as stated: every KEY2 press, whenever it arrives after the callbacks are
\* attached, has written the new current page to all three panels when its
\* handling ends.
C7_EveryToggleWrites ==
    [][(k2pc # "idle" /\ k2pc' = "idle") =>
          (instant' /\ panels' = frame_buffers[current_page])]_vars

\* C7 amended: the forced redraw of a KEY2 press writes the new current
\* page's cached bitmaps to the main, the left and the right panel in turn,
\* while it is handled, when the frame cache is filled and for as long as
\* every ShowImage call returns: when the third call has returned all three
\* panels show the new current page; a ShowImage call that raises ends the
\* handling there, the panels written before it showing the new page and the
\* others left as they were; and a press handled before the first
\* update_frame_buffers call has finished writes nothing.
C7_ToggleWritesOnceCacheFilled ==
    [][/\ (k2pc = "render" /\ k2pc' # "render") => k2pc' = "show"
       /\ (k2pc = "show" /\ k2pc' # "show") =>
            IF Filled(current_page)
            THEN \/ /\ k2pc' = "show_left"
                    /\ panels' = [panels EXCEPT
                                     !.main = frame_buffers[current_page].main]
                 \/ k2pc' = "idle" /\ ~instant' /\ panels' = panels
            ELSE k2pc' = "idle" /\ ~instant' /\ panels' = panels
       /\ (k2pc = "show_left" /\ k2pc' # "show_left") =>
            \/ /\ k2pc' = "show_right"
               /\ panels' = [panels EXCEPT
                                !.left = frame_buffers[current_page].left]
            \/ k2pc' = "idle" /\ ~instant' /\ panels' = panels
       /\ (k2pc = "show_right" /\ k2pc' # "show_right") =>
            /\ k2pc' = "idle"
            /\ \/ instant' /\ panels' = frame_buffers[current_page]
               \/ ~instant' /\ panels' = panels
       /\ (k2pc \in Writing /\ k2pc' = k2pc) => panels' = panels]_vars

\* The first press has been handled with the cache filled: the panels show
\* the earth page although the main loop last wrote the weather page.
C7_Witness ==
    /\ k2pc = "idle"
    /\ presses = 1
    /\ queued = 0
    /\ instant
    /\ page_buffer = "weather"
    /\ panels = frame_buffers["earth"]

\* C8: no KEY2 press is lost: each press flips current_page exactly once, when
\* its callback starts, also when it was made while an earlier press was still
\* being handled or while the main loop was in the middle of a tick: of n
\* presses of which q still wait for their callback, n - q have flipped the
\* page, so that after n presses, all handled, the page is 'weather' if n is
\* even and 'earth' if n is odd; and current_page is always one of the two.
C8_PageFollowsPressParity ==
    /\ current_page \in {"weather", "earth"}
    /\ current_page = (IF (presses - queued) % 2 = 0 THEN "weather" ELSE "earth")
    /\ queued \in 0..presses

\* Two presses have been made, the second while the forced redraw of the
\* first was cut short by a ShowImage error, and both have been handled: the
\* page is back to 'weather'.
C8_Witness ==
    /\ presses = 2
    /\ queued = 0
    /\ k2pc = "idle"
    /\ aborted
    /\ current_page = "weather"

\* C9: a tick that observes now - last_activity >= DIM_TIMEOUT leaves the
\* panels dimmed; dimmed, the duty cycles are 18, 9, 9, and bright they are
\* 90, 45, 45, whenever the tick is not in the middle of lines 608-611 or
\* 615-618.
C9_DimAtTimeout ==
    /\ (mpc \in {"upd", "read", "wmain", "wleft", "wright", "earth", "eleft",
                  "eright", "disp", "show", "show_left", "show_right", "sleep"}
          /\ now - last_activity >= DIM_TIMEOUT) => is_dimmed
    /\ mpc \notin {"dim_left", "dim_right", "dim_flag"} =>
          /\ is_dimmed => duty = [main |-> 18, left |-> 9, right |-> 9]
          /\ ~is_dimmed => duty = [main |-> 90, left |-> 45, right |-> 45]

\* A tick has dimmed the panels at exactly DIM_TIMEOUT seconds of idle time.
C9_Witness ==
    /\ mpc = "upd"
    /\ is_dimmed
    /\ now - last_activity = DIM_TIMEOUT
    /\ duty = DimmedDuty

\* C10 as stated: the panels go from dimmed to bright only if a button was
\* pressed after they were dimmed.
C10_RestoreOnlyAfterPressSinceDimmed ==
    [][is_dimmed /\ ~is_dimmed' => press_since_dim]_vars

\* C10 amended: the panels go from dimmed to bright only if a button was
\* pressed after the idle-time check of the tick that dimmed them: with no
\* such press last_activity is unchanged and is_dimmed stays true.
C10_RestoreOnlyAfterPress ==
    [][is_dimmed /\ ~is_dimmed' => last_activity > dim_activity]_vars

\* A tick has restored the brightness after a press.
C10_Witness ==
    /\ mpc = "upd"
    /\ ~is_dimmed
    /\ now - dim_activity >= DIM_TIMEOUT
    /\ last_activity > dim_activity
    /\ duty = NormalDuty

\* C11: a button press handled while the panels are dimmed makes them bright
\* as part of its handling: between two ticks, with no callback in progress,
\* whenever a press has been recorded since is_dimmed was last set, the power
\* state is bright and the duty cycles are the normal ones.
C11_PressRestoresAtOnce ==
    (mpc \in {"sleep", "tick"} /\ k2pc = "idle" /\ press_since_dim)
        => (~is_dimmed /\ duty = NormalDuty)

\* C12: the layout variant flips exactly in a tick that observes
\* now - last_swap_time >= SWAP_INTERVAL; that tick flips it once (line 598)
\* and, as its next step (line 599), sets last_swap_time to now; no other step
\* (tick, fetch thread, button) changes either; consecutive flips are at least
\* SWAP_INTERVAL apart.
C12_FlipExactlyWhenDue ==
    [][/\ (screens_swapped' # screens_swapped)
            <=> (mpc = "swap" /\ mpc' # "swap"
                    /\ now - last_swap_time >= SWAP_INTERVAL)
       /\ (screens_swapped' # screens_swapped) <=> (mpc # "swapped" /\ mpc' = "swapped")
       /\ (last_swap_time' # last_swap_time) <=> (mpc = "swapped" /\ mpc' = "idle")
       /\ (mpc = "swapped" /\ mpc' # "swapped")
            => /\ mpc' = "idle"
               /\ last_swap_time' = now
               /\ last_swap_time' - last_swap_time >= SWAP_INTERVAL]_vars

\* The layout has flipped twice, an hour apart, with KEY1 pressed between
\* the two flips.
C12_Witness ==
    /\ ~screens_swapped
    /\ last_swap_time = Epoch + 2 * SWAP_INTERVAL
    /\ last_activity = Epoch + SWAP_INTERVAL
    /\ mpc = "sleep"

\* C13: every display write, the main loop's or a forced redraw's, that
\* shows the weather page shows both side panels rendered under the layout
\* variant as it is at the time of the write.
C13_WritesShowCurrentVariant ==
    [][(/\ \/ mpc = "show_right" /\ mpc' = "sleep"
           \/ k2pc = "show_right" /\ k2pc' = "idle" /\ instant'
        /\ panels'.main.kind = "conditions")
       => /\ panels'.left.kind =
                (IF screens_swapped THEN "sun_times" ELSE "humidity_wind")
          /\ panels'.right.kind =
                (IF screens_swapped THEN "humidity_wind" ELSE "sun_times")]_vars

AllOrNone(frames) ==
    \/ \A d \in Displays : frames[d] = None
    \/ \A d \in Displays : frames[d] # None

\* C14: whenever the program runs and buffer_lock is not held by
\* update_frame_buffers, each page's entry of frame_buffers has its three
\* bitmaps all absent or all present.
C14_FramesAllOrNone ==
    (Running /\ buffer_lock # "update")
        => \A p \in Pages : AllOrNone(frame_buffers[p])

\* A forced redraw holds buffer_lock and reads a filled cache while the main
\* loop waits for the lock to recompute it.
C14_Witness ==
    /\ buffer_lock = "key2"
    /\ k2pc = "show"
    /\ mpc = "upd"
    /\ \A p \in Pages : \A d \in Displays : frame_buffers[p][d] # None

IsPlaceholder(bitmap) == bitmap.kind \in {"No Data", "--", "No Earth", "-- "}

\* The snapshot of the page's source as it is stored now.
SourceOf(page) == IF page = "weather" THEN weather_ref.data ELSE earth_ref.data

\* The snapshot of the page's source the latest update_frame_buffers read.
ReadOf(page) == IF page = "weather" THEN weather ELSE earth_data

\* A step in which a ShowImage call puts the page's bitmap on the panel: lines
\* 627-629 of the main loop and lines 549-551 of the forced redraw.
ShowsPanel(page, d) ==
    \/ /\ page_buffer = page
       /\ \/ d = "main" /\ mpc = "show" /\ mpc' = "show_left"
          \/ d = "left" /\ mpc = "show_left" /\ mpc' = "show_right"
          \/ d = "right" /\ mpc = "show_right" /\ mpc' = "sleep"
    \/ /\ current_page = page
       /\ \/ d = "main" /\ k2pc = "show" /\ k2pc' = "show_left"
          \/ d = "left" /\ k2pc = "show_left" /\ k2pc' = "show_right"
          \/ d = "right" /\ k2pc = "show_right" /\ k2pc' = "idle" /\ instant'

\* A step that ends a write of the page to all three panels: line 629 or 551.
WritesPage(page) == ShowsPanel(page, "right")

\* C15 as stated: a display write of a page shows three placeholders if the
\* stored snapshot of the page's source has ok=false and no placeholder if it
\* has ok=true; a stored snapshot never goes from ok=true to ok=false.
C15_PlaceholderIffNeverFetched ==
    [][\A p \in Pages :
          /\ WritesPage(p) =>
                IF SourceOf(p).ok
                THEN \A d \in Displays : ~IsPlaceholder(panels'[d])
                ELSE \A d \in Displays : IsPlaceholder(panels'[d])
          /\ SourceOf(p).ok => SourceOf(p)'.ok]_vars

\* C15 amended: every ShowImage call of a display write of a page puts a
\* placeholder on its panel if the snapshot the latest frame cache recompute
\* read for the page's source had ok=false and a bitmap that is no placeholder
\* if it had ok=true, so that a write that completes its three calls shows
\* three placeholders or none (a forced redraw that a ShowImage error ends
\* early leaves the panels it did not reach as they were); neither the stored
\* snapshot nor the one the recompute reads ever goes from ok=true to
\* ok=false.
C15_PlaceholderIffRecomputeReadNoData ==
    [][\A p \in Pages :
          /\ \A d \in Displays :
                ShowsPanel(p, d) =>
                    (IsPlaceholder(panels'[d]) <=> ~ReadOf(p).ok)
          /\ WritesPage(p) =>
                IF ReadOf(p).ok
                THEN \A d \in Displays : ~IsPlaceholder(panels'[d])
                ELSE \A d \in Displays : IsPlaceholder(panels'[d])
          /\ SourceOf(p).ok => SourceOf(p)'.ok
          /\ ReadOf(p).ok => ReadOf(p)'.ok]_vars

\* A forced redraw of the earth page, no earth fetch having succeeded yet, was
\* cut short after its first ShowImage call: the main panel shows the earth
\* page's placeholder beside the weather page's side panels, which are none.
C15_Witness ==
    /\ k2pc = "idle"
    /\ aborted
    /\ current_page = "earth"
    /\ ~earth_data.ok
    /\ weather.ok
    /\ IsPlaceholder(panels.main)
    /\ ~IsPlaceholder(panels.left)
    /\ ~IsPlaceholder(panels.right)

\* C16: when the main loop has stopped, every display driver has been told
\* to clear() and to module_exit().
C16_CleanupOnEveryExit ==
    mpc = "exit" => cleaned = Displays

\* C17: an error raised by ShowImage during a tick does not end the main
\* loop.
C17_ShowErrorKeepsLoopRunning ==
    exc = "ShowImage" => mpc # "exit"

\* C18: an exception raised by a render function during the recompute of the
\* frame cache does not leave the tick: the main loop goes on.
C18_RenderErrorKeepsLoopRunning ==
    exc = "IndexError" => mpc # "exit"

\* C19: a KEY1 press sets last_activity and leaves the page, the layout
\* variant, the snapshots, the frame cache and the panels as they are; a KEY2
\* press flips current_page (line 562, the first statement of its callback)
\* and then sets last_activity (line 563, the second), and nothing else flips
\* the page.
C19_WakeOnlyRecordsActivity ==
    [][/\ UNCHANGED <<clock, mpc, k2pc, presses, queued, wfetch, wstored, erun,
                      ecached, estored>>
            => /\ last_activity' \in {last_activity, clock}
               /\ UNCHANGED <<current_page, screens_swapped, last_swap_time,
                              weather_ref, earth_ref, earth_image_cache,
                              frame_buffers, panels, duty, is_dimmed>>
       /\ (k2pc = "idle" /\ k2pc' # "idle")
            => /\ k2pc' = "stamp"
               /\ current_page' = Toggle(current_page)
       /\ (k2pc = "stamp" /\ k2pc' # "stamp")
            => /\ k2pc' = "render"
               /\ last_activity' = clock
               /\ current_page' = current_page
       /\ current_page' # current_page => (k2pc = "idle" /\ k2pc' = "stamp")]_vars

\* KEY1 was pressed, KEY2 never: the idle time starts at the press and the
\* panels show what the main loop wrote.
C19_Witness ==
    /\ presses = 0
    /\ last_activity > Epoch
    /\ current_page = "weather"
    /\ mpc = "sleep"
    /\ panels = frame_buffers["weather"]
    /\ ~is_dimmed

\* C20: the snapshot of a source is never replaced by the result of a fetch
\* launched earlier than the fetch whose result it holds.
C20_OlderResultNeverOverwrites ==
    [][/\ weather_ref'.data.id >= weather_ref.data.id
       /\ earth_ref'.data.id >= earth_ref.data.id]_vars

\* C21: a tick launches a fetch of a source if and only if no fetch of that
\* source has succeeded yet or at least the source's refresh interval (300 s
\* for the weather, 3600 s for the earth photo) has passed since its last
\* successful fetch completed; so a failed fetch is retried at a later tick,
\* and after a success none is launched until the interval has passed.
C21_FetchLaunchedIffDue ==
    [][/\ (mpc = "wcheck" /\ mpc' = "echeck") =>
            (wfetch' # wfetch <=>
                \/ ~weather_ref.data.ok
                \/ now - weather_ref.last_fetch >= 300)
       /\ (mpc = "echeck" /\ mpc' = "swap") =>
            (erun' # erun <=>
                \/ ~earth_ref.data.ok
                \/ now - earth_ref.last_fetch >= 3600)
       /\ (wfetch' \ wfetch # {} \/ erun' \ erun # {}) =>
            mpc \in {"wcheck", "echeck"}]_vars

\* The second tick has started: the weather fetch of the first tick succeeded
\* and none is launched, the earth fetch of the first tick failed and is
\* retried.
C21_Witness ==
    /\ mpc = "dim"
    /\ now = Epoch + 5
    /\ weather_ref.data.ok
    /\ weather_ref.last_fetch = Epoch
    /\ wfetch = {}
    /\ ~earth_ref.data.ok
    /\ erun = {now}
    /\ ecached = {}

\* C22: wind_dir maps every integer direction deg of 0..360 to the label of
\* the nearest 45-degree sector, the sectors being N, NE, E, SE, S, SW, W, NW
\* in that order and 360 wrapping to N; wind_dir(270) is W.
C22_WindDirNearestSector ==
    (wx.ok /\ drawn.dir # "") =>
        LET deg == wx.wdir
            Sectors == 0..((deg \div 45) + 1)
            Distance(k) == IF deg >= 45 * k THEN deg - 45 * k ELSE 45 * k - deg
            Label(k) == <<"N", "NE", "E", "SE", "S", "SW", "W", "NW">>[(k % 8) + 1]
        IN  /\ \E k \in Sectors :
                 /\ \A j \in Sectors : Distance(k) <= Distance(j)
                 /\ drawn.dir = Label(k)
            /\ deg = 270 => drawn.dir = "W"
            /\ deg = 360 => drawn.dir = "N"

\* 338 degrees is nearer to 360 than to 315: the label wraps to N.
C22_Witness == wx.ok /\ wx.wdir = 338 /\ drawn.dir = "N"

\* C23: for a snapshot with ok=true the main panel's condition label is the
\* WMO table's entry for the snapshot's code, 'Unknown' for a code the table
\* does not have, and its temperature colour is that of the band holding the
\* temperature, the bands being split at 5, 12, 18, 24 and 28 with the lower
\* bound inclusive; code 2 gives 'Partly Cloudy' and 18 degrees has the colour
\* of the band 18..23, not that of 12..17.
C23_ConditionAndTemperatureBand ==
    (wx.ok /\ drawn.cond # "") =>
        LET Colours == << <<100, 180, 255>>, <<60, 200, 200>>, <<80, 220, 140>>,
                          <<200, 200, 100>>, <<255, 160, 60>>, <<255, 80, 60>> >>
            Band(t) == Cardinality({b \in {5, 12, 18, 24, 28} : b <= t}) + 1
        IN  /\ wx.code \in DOMAIN WMO => drawn.cond = WMO[wx.code]
            /\ wx.code \notin DOMAIN WMO => drawn.cond = "Unknown"
            /\ wx.code = 2 => drawn.cond = "Partly Cloudy"
            /\ wx.code \in {4, 100} => drawn.cond = "Unknown"
            /\ drawn.tc = Colours[Band(wx.temp)]
            /\ wx.temp = 18 => drawn.tc = <<200, 200, 100>>
            /\ wx.temp = 17 => drawn.tc = <<80, 220, 140>>

C23_Witness ==
    /\ wx.ok
    /\ wx.code = 2
    /\ wx.temp = 18
    /\ drawn.cond = "Partly Cloudy"
    /\ drawn.tc = <<200, 200, 100>>

\* C24: in earth.py a photo download is attempted at most once per clock hour
\* int(now // 3600), the photo attempted in hour h being entry h mod
\* len(photos_list) of the list: an attempt is never made in the hour of the
\* attempt before it.
C24_OneAttemptPerHour ==
    [][(epc = "photo" /\ iteration'.photo # "none") =>
          /\ Hour(now) # attempt_hour
          /\ iteration'.idx = Hour(now) % Len(photos_list)]_vars

\* C24, amended: a download is attempted only in a clock hour other than that
\* of the attempt before it, or in an iteration that has just refreshed the
\* photo list; the photo attempted in hour h is entry h mod len(photos_list),
\* and a successful attempt makes that entry the current photo.
C24_OneAttemptPerHourUnlessListRefreshed ==
    [][(epc = "photo" /\ iteration'.photo # "none") =>
          /\ Hour(now) # attempt_hour \/ iteration.list = "ok"
          /\ iteration'.idx = Hour(now) % Len(photos_list)
          /\ iteration'.photo = "ok" =>
                /\ current_photo'.image = photos_list[iteration'.idx + 1]
                /\ current_photo'.image.entry = Hour(now) % Len(photos_list)]_vars

\* Twelve hours after the start, in the clock hour whose photo (the fifth of
\* the five of the first list) is already the current one, the list has been
\* refreshed and a second download in that hour has been attempted.
C24_Witness ==
    /\ epc = "show"
    /\ now = Epoch + UPDATE_LIST_SECONDS
    /\ iteration.list = "ok"
    /\ iteration.photo = "failed"
    /\ attempt_hour = Hour(now)
    /\ current_photo.ok
    /\ current_photo.image.list = Epoch
    /\ current_photo.total = 5
    /\ current_photo.index = (Hour(now) % 5) + 1
    /\ Hour(now) % 5 # Hour(Epoch) % 5

\* A step of earth.py's loop that writes a panel: line 251, 252 or 253.
EarthPyWrites ==
    \/ epc = "show" /\ epc' = "show_left"
    \/ epc = "show_left" /\ epc' = "show_right"
    \/ epc = "show_right" /\ epc' = "clean"

\* C27: in earth.py the three panels are written in an iteration only if it is
\* the first one or a new photo was downloaded in it; an iteration in which
\* no download is due, or in which the list fetch or the photo download fails,
\* writes nothing to the panels and leaves current_photo unchanged.
C27_NoWriteWhenAFetchFails ==
    [][/\ EarthPyWrites =>
            /\ iteration.first \/ iteration.photo = "ok"
            /\ ~(/\ ~iteration.first
                 /\ \/ iteration.photo \in {"none", "failed"}
                    \/ iteration.list = "failed")
       /\ (/\ epc = "photo"
           /\ epc' # "photo"
           /\ \/ iteration'.photo \in {"none", "failed"}
              \/ iteration.list = "failed")
            => current_photo' = current_photo]_vars

\* C27, amended: a panel is written in an iteration only if it is the first
\* one or a new photo was downloaded in it, and such an iteration writes the
\* main, the left and the right panel in turn, for as long as the loop is not
\* ended (by render_main raising on a downloaded photo whose pixel data are
\* cut short, before any panel is written, by render_left raising on the
\* photo's date after the main panel was written, or by an interrupt); an
\* iteration in which no photo is downloaded
\* (none is due, the list is empty, or the download fails) leaves
\* current_photo unchanged and, unless it is the first, writes nothing; a list
\* refresh that fails does not by itself prevent the download.
C27_WriteOnlyFirstOrDownloaded ==
    [][/\ EarthPyWrites => iteration.first \/ iteration.photo = "ok"
       /\ (epc = "show" /\ epc' \in {"show_left", "sleep"}) =>
            /\ epc' = "show_left" <=> (iteration.first \/ iteration.photo = "ok")
            /\ epc' = "sleep" => (panels' = panels /\ ~iteration'.wrote)
            /\ epc' = "show_left" =>
                 /\ iteration'.wrote
                 /\ panels' = [panels EXCEPT
                                  !.main = earth_py_render_main(current_photo)]
       /\ (epc = "show_left" /\ epc' = "show_right") =>
            panels' = [panels EXCEPT !.left = earth_py_render_left(current_photo)]
       /\ (epc = "show_right" /\ epc' = "clean") =>
            panels' = [main  |-> earth_py_render_main(current_photo),
                       left  |-> earth_py_render_left(current_photo),
                       right |-> earth_py_render_right(current_photo)]
       /\ (epc = "show" /\ epc' = "exit") =>
            /\ exc' = "OSError"
            /\ iteration.photo = "ok"
            /\ ~current_photo.whole
            /\ panels' = panels
            /\ ~iteration.wrote
       /\ (epc = "show" /\ epc' = "show_left") =>
            (current_photo.ok => current_photo.whole)
       /\ (epc = "show_left" /\ exc' = "IndexError") =>
            /\ iteration.photo = "ok"
            /\ panels' = panels
            /\ panels.main = earth_py_render_main(current_photo)
       /\ (/\ epc = "photo"
           /\ epc' # "photo"
           /\ iteration'.photo \in {"none", "failed"})
            => current_photo' = current_photo
       /\ current_photo' # current_photo =>
            epc = "photo" /\ iteration'.photo = "ok"]_vars

\* A later iteration whose list refresh failed has downloaded the photo of
\* the hour from the list it already had, and written it to the panels.
C27_Witness ==
    /\ epc = "sleep"
    /\ ~iteration.first
    /\ iteration.list = "failed"
    /\ iteration.photo = "ok"
    /\ iteration.wrote
    /\ panels.main = [kind |-> "photo", snap |-> current_photo.image]
    /\ current_photo.image.list < now

\* C25: once a fetch has stored a new snapshot, the display write of the
\* first tick that starts after the store shows, when the source's page is the
\* current one, frames rendered from that snapshot or from a newer one.
C25_TickShowsStoredSnapshot ==
    [][(/\ mpc = "show_right"
        /\ mpc' = "sleep"
        /\ tick_snap[page_buffer].ok)
       => \A d \in Displays :
             /\ ~IsPlaceholder(panels'[d])
             /\ panels'[d].snap >= tick_snap[page_buffer].id]_vars

\* The panels show the three bitmaps of the page.
Shows(page) ==
    IF page = "weather"
    THEN /\ panels.main.kind \in {"No Data", "conditions"}
         /\ panels.left.kind \in {"--", "humidity_wind", "sun_times"}
         /\ panels.right.kind \in {"--", "humidity_wind", "sun_times"}
    ELSE /\ panels.main.kind \in {"No Earth", "photo"}
         /\ panels.left.kind \in {"-- ", "date"}
         /\ panels.right.kind \in {"-- ", "centre"}

====
